---- MODULE Spec2Model ----
(***************************************************************************)
(* Model of the Excel -> PostgreSQL import orchestration engine            *)
(* (src/services/orchestrator.py, src/services/fk_propagation.py,          *)
(* src/excel/reader.py, src/db/batch_insert.py).                           *)
(*                                                                         *)
(* Representation of Python values:                                        *)
(*   - a cell value is a tagged record: NaN (pandas missing cell), NoneV   *)
(*     (Python None), IntV(i), StrV(atoms) where atoms is the string cut   *)
(*     into whitespace atoms (" ") and non-whitespace atoms;               *)
(*   - a column, sheet or table name is a TLA+ string;                     *)
(*   - a "table.column" reference is the non-empty sequence of its         *)
(*     dot-separated parts (<<"parents","name">> is "parents.name",        *)
(*     <<"parents">> has no dot, <<"">> is the empty string); <<>> stands  *)
(*     for a missing (None) reference.                                     *)
(***************************************************************************)
EXTENDS Integers, Sequences, FiniteSets, TLC

VARIABLES
    config,            \* ImportConfig of the run (immutable once loaded)
    cursor,            \* store handle: "none" (mock mode) or "live"
    directory,         \* what config.source_directory is on disk
    files,             \* the .xlsx files of the directory: sequence of workbook ids
    pc,                \* position of process_all
    fi,                \* index of the file being processed
    mi,                \* index in sheet_mappings of the sheet loop
    faults,            \* number of store / IO faults injected so far
    next_key,          \* next key the store generates
    trace,             \* store and reader calls, in call order
    error_log,         \* ErrorLogBuffer._records
    log_file,          \* lines written by ErrorLogBuffer.flush
    flushed,           \* number of ErrorLogBuffer.flush calls
    parent_pk_lookup,  \* table name -> ordered identifier->key map
    processed_tables,  \* set of table names
    total_inserted_rows, \* _process_single_file local
    skipped_sheets,    \* _process_single_file local
    sheet_processes,   \* _process_single_file local
    pending,           \* prepared batch insert of the current sheet
    success_count, failed_count, total_rows, total_skipped_sheets,
    file_stats,        \* list of FileStat
    file_results,      \* ExcelFile returned by _process_single_file, per file
    result,            \* ProcessingResult returned by process_all
    nr_fp, nr_table, nr_processed, nr_result, nr_op, \* needs_returning harness
    bi_call, bi_ret,   \* batch_insert: arguments and environment, outcome
    pf_call, pf_ret,   \* propagate_foreign_keys: arguments, outcome
    ns_call, ns_ret,   \* normalize_sheet: arguments, outcome
    cli_pc,            \* position of main
    cli_env,           \* what main finds: config file, arguments, environment
    summary_lines,     \* SUMMARY lines logged by main
    exit_code,         \* value returned by main, -1 until it returns
    main_calls,        \* the cursor of each process_all call main has made
    el_records,        \* ErrorLogBuffer._records
    el_file_path,      \* ErrorLogBuffer._file_path
    el_now,            \* datetime.now(timezone.utc), to the second
    el_disk,           \* the files under ./logs: path -> lines
    el_appended,       \* every record passed to append, in call order
    el_flushes         \* every flush call: its path, outcome and lines

mainVars == <<config, cursor, directory, files, pc, fi, mi, faults, next_key,
              trace, error_log, log_file, flushed, parent_pk_lookup, processed_tables,
              total_inserted_rows, skipped_sheets, sheet_processes, pending,
              success_count, failed_count, total_rows, total_skipped_sheets,
              file_stats, file_results, result>>
nrVars == <<nr_fp, nr_table, nr_processed, nr_result, nr_op>>
hVars == <<bi_call, bi_ret, pf_call, pf_ret, ns_call, ns_ret,
           cli_pc, cli_env, summary_lines, exit_code, main_calls>>
elVars == <<el_records, el_file_path, el_now, el_disk, el_appended, el_flushes>>
auxVars == <<nrVars, hVars, elVars>>
vars == <<mainVars, nrVars, hVars, elVars>>

(***************************************************************************)
(* Bounds                                                                  *)
(***************************************************************************)
MaxFiles == 2
MaxFaults == 2
MaxPairs == 2

(***************************************************************************)
(* Python values                                                           *)
(***************************************************************************)
NaN == [k |-> "nan"]
NoneV == [k |-> "none"]
IntV(n) == [k |-> "int", i |-> n]
StrV(atoms) == [k |-> "str", s |-> atoms]

RECURSIVE Join(_)
Join(atoms) == IF atoms = <<>> THEN "" ELSE Head(atoms) \o Join(Tail(atoms))

RECURSIVE LStrip(_)
LStrip(atoms) ==
    IF atoms # <<>> /\ Head(atoms) = " " THEN LStrip(Tail(atoms)) ELSE atoms

RECURSIVE RStrip(_)
RStrip(atoms) ==
    IF atoms # <<>> /\ atoms[Len(atoms)] = " "
    THEN RStrip(SubSeq(atoms, 1, Len(atoms) - 1)) ELSE atoms

Strip(atoms) == RStrip(LStrip(atoms))

UpperAtom(a) ==
    CASE a = "null" -> "NULL"
      [] a = "Alice" -> "ALICE"
      [] a = "Bob" -> "BOB"
      [] a = "id" -> "ID"
      [] a = "name" -> "NAME"
      [] a = "parent_id" -> "PARENT_ID"
      [] a = "value" -> "VALUE"
      [] a = "title" -> "TITLE"
      [] OTHER -> a

Upper(atoms) == [j \in 1..Len(atoms) |-> UpperAtom(atoms[j])]

LowerName(s) ==
    CASE s = "Parents" -> "parents"
      [] s = "Children" -> "children"
      [] s = "Notes" -> "notes"
      [] OTHER -> s

Min(a, b) == IF a < b THEN a ELSE b

RECURSIVE SumSeq(_)
SumSeq(s) == IF s = <<>> THEN 0 ELSE Head(s) + SumSeq(Tail(s))

Range(s) == {s[j] : j \in 1..Len(s)}

(***************************************************************************)
(* "table.column" references                                               *)
(***************************************************************************)
HasDot(ref) == Len(ref) >= 2
Falsy(ref) == ref = <<>> \/ ref = <<"">>
TableOf(ref) == ref[1]
ColumnOf(ref) == Tail(ref)

(***************************************************************************)
(* fk_propagation.py                                                       *)
(***************************************************************************)
\* Mutant of nr_list_loop: the first pair of the table decides, later children of
\* the same parent are not looked at.
RECURSIVE nr_list_loop_first_child(_, _, _, _)
nr_list_loop_first_child(entries, j, table_name, processed) ==
    IF j > Len(entries) THEN FALSE
    ELSE LET parent_ref == entries[j].parent
             child_ref == entries[j].child
         IN  IF \/ Falsy(parent_ref) \/ Falsy(child_ref)
                \/ ~HasDot(parent_ref) \/ ~HasDot(child_ref)
             THEN nr_list_loop_first_child(entries, j + 1, table_name, processed)
             ELSE IF TableOf(parent_ref) # table_name
             THEN nr_list_loop_first_child(entries, j + 1, table_name, processed)
             ELSE TableOf(child_ref) \notin processed

\* The list-shape loop of needs_returning, from entry j on.
RECURSIVE nr_list_loop(_, _, _, _)
nr_list_loop(entries, j, table_name, processed) ==
    IF j > Len(entries) THEN FALSE
    ELSE LET parent_ref == entries[j].parent
             child_ref == entries[j].child
         IN  IF \/ Falsy(parent_ref) \/ Falsy(child_ref)
                \/ ~HasDot(parent_ref) \/ ~HasDot(child_ref)
             THEN nr_list_loop(entries, j + 1, table_name, processed)
             ELSE IF TableOf(parent_ref) # table_name
             THEN nr_list_loop(entries, j + 1, table_name, processed)
             ELSE IF TableOf(child_ref) \notin processed
             THEN TRUE
             ELSE nr_list_loop(entries, j + 1, table_name, processed)

\* The legacy dict-shape loop of needs_returning, from item j on.
RECURSIVE nr_dict_loop(_, _, _, _)
nr_dict_loop(items, j, table_name, processed) ==
    IF j > Len(items) THEN FALSE
    ELSE LET fk_mapping_key == items[j].parent
             child_reference == items[j].child
         IN  IF /\ HasDot(fk_mapping_key)
                /\ TableOf(fk_mapping_key) = table_name
                /\ HasDot(child_reference)
                /\ TableOf(child_reference) \notin processed
             THEN TRUE
             ELSE nr_dict_loop(items, j + 1, table_name, processed)

needs_returning(table_name, fp, processed) ==
    IF fp.shape = "list" THEN nr_list_loop(fp.entries, 1, table_name, processed)
    ELSE IF fp.shape = "dict" THEN nr_dict_loop(fp.entries, 1, table_name, processed)
    ELSE FALSE

\* _append of build_fk_propagation_maps: the maps one pair contributes.
fk_append(parent_ref, child_ref) ==
    IF ~HasDot(parent_ref) \/ ~HasDot(child_ref) THEN <<>>
    ELSE << [parent_table |-> TableOf(parent_ref),
             parent_identifier_column |-> ColumnOf(parent_ref),
             child_fk_column |-> ColumnOf(child_ref),
             parent_pk_column |-> ColumnOf(parent_ref)] >>

RECURSIVE fk_maps_loop(_, _, _)
fk_maps_loop(shape, entries, j) ==
    IF j > Len(entries) THEN <<>>
    ELSE LET e == entries[j]
             here == IF shape = "list"
                     THEN IF ~Falsy(e.parent) /\ ~Falsy(e.child)
                          THEN fk_append(e.parent, e.child) ELSE <<>>
                     ELSE fk_append(e.parent, e.child)
         IN  here \o fk_maps_loop(shape, entries, j + 1)

build_fk_propagation_maps(fp) ==
    IF fp.shape \in {"list", "dict"} THEN fk_maps_loop(fp.shape, fp.entries, 1)
    ELSE <<>>

(***************************************************************************)
(* excel/reader.py                                                         *)
(***************************************************************************)
\* str(c).strip() of a header cell.
HeaderName(c) ==
    CASE c.k = "nan" -> "nan"
      [] c.k = "none" -> "None"
      [] c.k = "int" -> ToString(c.i)
      [] c.k = "str" -> Join(Strip(c.s))

\* The value normalize_sheet stores for one cell of a data row.
normalize_cell(col, val, default_values, null_sentinels) ==
    IF val.k = "nan"
    THEN IF col \in DOMAIN default_values THEN default_values[col] ELSE NoneV
    ELSE IF val.k = "str"
    THEN LET stripped == Strip(val.s)
             upper == Join(Upper(stripped))
         IN  IF null_sentinels # {} /\ upper \in null_sentinels THEN NoneV
             ELSE IF Join(stripped) = "" /\ col \in DOMAIN default_values
             THEN default_values[col]
             ELSE val
    ELSE val

\* row_dict of one data row: zip(columns, raw), a later duplicate column wins.
row_dict_of(columns, raw, default_values, null_sentinels) ==
    LET n == Min(Len(columns), Len(raw))
        last(c) == CHOOSE j \in 1..n :
                      /\ columns[j] = c
                      /\ \A h \in 1..n : columns[h] = c => h <= j
    IN  [c \in {columns[j] : j \in 1..n} |->
            normalize_cell(c, raw[last(c)], default_values, null_sentinels)]

\* Mutant of normalize_rows: a data row with any missing cell is skipped.
RECURSIVE normalize_rows_skip_partial(_, _, _, _, _)
normalize_rows_skip_partial(df, r, columns, default_values, null_sentinels) ==
    IF r > Len(df) THEN <<>>
    ELSE LET raw == df[r]
             rest == normalize_rows_skip_partial(df, r + 1, columns, default_values,
                                                 null_sentinels)
         IN  IF \E j \in 1..Len(raw) : raw[j].k = "nan"
             THEN rest
             ELSE <<row_dict_of(columns, raw, default_values, null_sentinels)>> \o rest

RECURSIVE normalize_rows(_, _, _, _, _)
normalize_rows(df, r, columns, default_values, null_sentinels) ==
    IF r > Len(df) THEN <<>>
    ELSE LET raw == df[r]
             rest == normalize_rows(df, r + 1, columns, default_values, null_sentinels)
         IN  IF \A j \in 1..Len(raw) : raw[j].k = "nan"
             THEN rest
             ELSE <<row_dict_of(columns, raw, default_values, null_sentinels)>> \o rest

\* normalize_sheet: SheetData, or the exception it raises.
normalize_sheet(df, expected_columns, default_values, null_sentinels) ==
    IF Len(df) < 2 THEN [ok |-> FALSE, err |-> "SheetHeaderError"]
    ELSE LET header_series == df[2]
             columns == [j \in 1..Len(header_series) |-> HeaderName(header_series[j])]
             rows == normalize_rows(df, 3, columns, default_values, null_sentinels)
         IN  IF expected_columns # {} /\ (expected_columns \ Range(columns)) # {}
             THEN [ok |-> FALSE, err |-> "MissingColumnsError"]
             ELSE [ok |-> TRUE, columns |-> columns, rows |-> rows]

(***************************************************************************)
(* Inputs of a run: configurations and workbooks                           *)
(***************************************************************************)
FirstKey == 101

ParentsMapping ==
    [isdict |-> TRUE, has_table |-> TRUE, table |-> "parents",
     sequence_columns |-> {"id"}, fk_propagation_columns |-> {},
     default_values |-> <<>>]
ChildrenMapping ==
    [isdict |-> TRUE, has_table |-> TRUE, table |-> "children",
     sequence_columns |-> {"id"}, fk_propagation_columns |-> {"parent_id"},
     default_values |-> <<>>]
\* A child sheet with two FK propagation columns.
OwnedChildrenMapping ==
    [isdict |-> TRUE, has_table |-> TRUE, table |-> "children",
     sequence_columns |-> {"id"}, fk_propagation_columns |-> {"parent_id", "owner_id"},
     default_values |-> <<>>]
NotesMapping ==
    [isdict |-> TRUE, has_table |-> FALSE, table |-> "",
     sequence_columns |-> {}, fk_propagation_columns |-> {},
     default_values |-> [c \in {"value"} |-> IntV(0)]]

ParentChildPair ==
    [parent |-> <<"parents", "name">>, child |-> <<"children", "parent_id">>]

ConfigIds == {"pc", "cp", "bad"}

\* ImportConfig by id.  "pc": parent configured before child, legacy dict shape;
\* "cp": child configured before parent, list shape; "bad": a mapping entry
\* that is not a dict; "nomap": as "pc", the child sheet declaring a second FK
\* propagation column (owner_id) that no fk_propagations pair names.
Cfg(id) ==
    CASE id = "pc" ->
           [sheet_mappings |-> << [sheet_name |-> "Parents", data |-> ParentsMapping],
                                  [sheet_name |-> "Children", data |-> ChildrenMapping] >>,
            sequences |-> << <<"parents", "id">> >>,
            fk_propagations |-> [shape |-> "dict", entries |-> <<ParentChildPair>>],
            null_sentinels |-> {}]
      [] id = "cp" ->
           [sheet_mappings |-> << [sheet_name |-> "Children", data |-> ChildrenMapping],
                                  [sheet_name |-> "Parents", data |-> ParentsMapping],
                                  [sheet_name |-> "Notes", data |-> NotesMapping] >>,
            sequences |-> << <<"id">> >>,
            fk_propagations |-> [shape |-> "list",
                                 entries |-> << [parent |-> <<>>, child |-> <<"children", "parent_id">>],
                                                ParentChildPair >>],
            null_sentinels |-> { <<" ", "null">> }]
      [] id = "nomap" ->
           [sheet_mappings |-> << [sheet_name |-> "Parents", data |-> ParentsMapping],
                                  [sheet_name |-> "Children", data |-> OwnedChildrenMapping] >>,
            sequences |-> << <<"parents", "id">> >>,
            fk_propagations |-> [shape |-> "dict", entries |-> <<ParentChildPair>>],
            null_sentinels |-> {}]
      [] id = "bad" ->
           [sheet_mappings |-> << [sheet_name |-> "Parents", data |-> [isdict |-> FALSE]] >>,
            sequences |-> <<>>,
            fk_propagations |-> [shape |-> "dict", entries |-> <<>>],
            null_sentinels |-> {}]

Alice == StrV(<<"Alice">>)
Bob == StrV(<<"Bob">>)

ParentsGrid ==
    << <<StrV(<<"title">>), NaN>>,
       <<StrV(<<"id">>), StrV(<<" ", "name">>)>>,
       <<NaN, Alice>>,
       <<NaN, NaN>>,
       <<NaN, Bob>> >>
ChildrenGrid ==
    << <<StrV(<<"title">>), NaN, NaN>>,
       <<StrV(<<"id">>), StrV(<<"parent_id">>), StrV(<<"value">>)>>,
       <<NaN, Alice, IntV(10)>>,
       <<NaN, NaN, IntV(11)>>,
       <<NaN, Bob, IntV(12)>> >>
ChildrenNoFkGrid ==
    << <<StrV(<<"title">>), NaN>>,
       <<StrV(<<"id">>), StrV(<<"value">>)>>,
       <<NaN, IntV(10)>> >>
OwnedChildrenGrid ==
    << <<StrV(<<"title">>), NaN, NaN>>,
       <<StrV(<<"id">>), StrV(<<"parent_id">>), StrV(<<"owner_id">>)>>,
       <<NaN, Alice, NaN>>,
       <<NaN, NaN, IntV(7)>> >>
ShortGrid == << <<StrV(<<"title">>)>> >>
NotesGrid ==
    << <<StrV(<<"title">>)>>,
       <<StrV(<<"value">>)>> >>

WorkbookIds == {"both", "nofk", "short", "ponly"}

\* The sheets of a workbook, in workbook order.
Wb(id) ==
    CASE id = "both" -> << [name |-> "Children", df |-> ChildrenGrid],
                           [name |-> "Parents", df |-> ParentsGrid] >>
      [] id = "nofk" -> << [name |-> "Parents", df |-> ParentsGrid],
                           [name |-> "Children", df |-> ChildrenNoFkGrid] >>
      [] id = "short" -> << [name |-> "Parents", df |-> ShortGrid],
                            [name |-> "Children", df |-> ChildrenGrid] >>
      [] id = "owned" -> << [name |-> "Parents", df |-> ParentsGrid],
                            [name |-> "Children", df |-> OwnedChildrenGrid] >>
      [] id = "ponly" -> << [name |-> "Other", df |-> ShortGrid],
                            [name |-> "Notes", df |-> NotesGrid],
                            [name |-> "Parents", df |-> ParentsGrid] >>

\* Column order of each table in the store; "id" is the generated key.
TableCols(table) ==
    CASE table = "parents" -> <<"id", "name">>
      [] table = "children" -> <<"id", "parent_id", "value">>
      [] OTHER -> <<"id", "value">>

FileLists == UNION { [1..n -> WorkbookIds] : n \in 0..MaxFiles }

\* config.source_directory on disk: a readable directory, a missing path, a
\* path that is a file, or a directory whose listing raises OSError.
DirectoryStates == {"dir", "missing", "file", "unreadable"}

(***************************************************************************)
(* orchestrator.py: helpers                                                *)
(***************************************************************************)
FILE_LEVEL == "<FILE_LEVEL>"
NoError == "None"
NoPending == [active |-> FALSE]

ErrorRecord(file, sheet, error_type) ==
    [file |-> file, sheet |-> sheet, row |-> -1, error_type |-> error_type]

\* _convert_config_to_domain_mappings: the mappings are valid iff each is a dict.
config_is_valid(cfg) ==
    \A j \in 1..Len(cfg.sheet_mappings) : cfg.sheet_mappings[j].data.isdict

global_nulls(cfg) == { Join(Upper(Strip(n))) : n \in cfg.null_sentinels }

convert_config_to_domain_mappings(cfg) ==
    [j \in 1..Len(cfg.sheet_mappings) |->
        LET sheet_name == cfg.sheet_mappings[j].sheet_name
            mapping_data == cfg.sheet_mappings[j].data
        IN  [sheet_name |-> sheet_name,
             table_name |-> IF mapping_data.has_table THEN mapping_data.table
                            ELSE LowerName(sheet_name),
             sequence_columns |-> mapping_data.sequence_columns,
             fk_propagation_columns |-> mapping_data.fk_propagation_columns,
             default_values |-> mapping_data.default_values,
             null_sentinels |-> global_nulls(cfg)]]

\* SheetMappingConfig.expected_columns (blob_columns is never set here).
expected_columns(m) == DOMAIN m.default_values \cup m.fk_propagation_columns

\* Mutant of sheet_mappings: the mapped sheets in workbook order first.
sheet_mappings_workbook_order ==
    LET base == convert_config_to_domain_mappings(Cfg(config))
        names == [j \in 1..Len(Wb(files[fi])) |-> Wb(files[fi])[j].name]
        mapped == SelectSeq(names, LAMBDA n : \E j \in 1..Len(base) : base[j].sheet_name = n)
        inbook == [j \in 1..Len(mapped) |->
                     CHOOSE m \in Range(base) : m.sheet_name = mapped[j]]
    IN  inbook \o SelectSeq(base, LAMBDA m : m.sheet_name \notin Range(names))

sheet_mappings == convert_config_to_domain_mappings(Cfg(config))
fk_maps == build_fk_propagation_maps(Cfg(config).fk_propagations)

\* read_excel_file(path, target_sheets): the workbook's sheets that are mapped.
read_excel_file(wb, target_sheets) ==
    SelectSeq(Wb(wb), LAMBDA sh : sh.name \in target_sheets)

raw_sheets ==
    read_excel_file(files[fi], {sheet_mappings[j].sheet_name : j \in 1..Len(sheet_mappings)})

SheetPresent(name) == \E j \in 1..Len(raw_sheets) : raw_sheets[j].name = name
SheetDf(name) == (CHOOSE sh \in Range(raw_sheets) : sh.name = name).df

SeqIndex(seq, x) == CHOOSE j \in 1..Len(seq) : seq[j] = x /\ \A h \in 1..(j - 1) : seq[h] # x

\* insert_columns: the sheet's columns minus the sequence columns.
insert_columns_of(columns, ignored_columns) ==
    SelectSeq(columns, LAMBDA col : col \notin ignored_columns)

\* insert_rows: row_dict.get(col) for every insert column.
insert_rows_of(rows, insert_columns) ==
    [r \in 1..Len(rows) |->
        [c \in 1..Len(insert_columns) |->
            IF insert_columns[c] \in DOMAIN rows[r] THEN rows[r][insert_columns[c]]
            ELSE NoneV]]

\* m.child_fk_column.endswith("." + fk_col) or m.child_fk_column == fk_col
fk_map_matches(m, fk_col) ==
    /\ Len(m.child_fk_column) >= 1
    /\ m.child_fk_column[Len(m.child_fk_column)] = fk_col

\* list(parent_map.values()) of the map the inline fill uses for fk_col, or <<>>
\* when no mapping matches or the parent map is missing or empty.
fill_pk_list(fk_col, maps, lookup) ==
    LET target_maps == SelectSeq(maps, LAMBDA m : fk_map_matches(m, fk_col))
    IN  IF target_maps = <<>> THEN <<>>
        ELSE LET m == target_maps[1]
             IN  IF m.parent_table \notin DOMAIN lookup THEN <<>>
                 ELSE [j \in 1..Len(lookup[m.parent_table]) |-> lookup[m.parent_table][j].val]

\* Mutant of fill_fk_cells: the cell is filled whether or not it was None.
fill_fk_cells_overwrite(rows, insert_columns, fk_cols, maps, lookup) ==
    [r \in 1..Len(rows) |->
        [c \in 1..Len(insert_columns) |->
            LET col == insert_columns[c]
                pk_list == fill_pk_list(col, maps, lookup)
            IN  IF /\ col \in fk_cols
                   /\ c = SeqIndex(insert_columns, col)
                   /\ pk_list # <<>>
                THEN pk_list[((r - 1) % Len(pk_list)) + 1]
                ELSE rows[r][c]]]

\* The inline FK fill of _process_single_sheet.
fill_fk_cells(rows, insert_columns, fk_cols, maps, lookup) ==
    [r \in 1..Len(rows) |->
        [c \in 1..Len(insert_columns) |->
            LET col == insert_columns[c]
                pk_list == fill_pk_list(col, maps, lookup)
            IN  IF /\ col \in fk_cols
                   /\ c = SeqIndex(insert_columns, col)
                   /\ pk_list # <<>>
                   /\ rows[r][c] = NoneV
                THEN pk_list[((r - 1) % Len(pk_list)) + 1]
                ELSE rows[r][c]]]

\* What the store returns for RETURNING *: one tuple per inserted row, in the
\* table's column order, the key column holding the generated key.
returned_values_of(table, columns, rows, first_key) ==
    [r \in 1..Len(rows) |->
        [c \in 1..Len(TableCols(table)) |->
            LET col == TableCols(table)[c]
            IN  IF col = "id" THEN IntV(first_key + r - 1)
                ELSE IF col \in Range(columns) THEN rows[r][SeqIndex(columns, col)]
                ELSE NoneV]]

\* candidate_pk_cols from the keys of config.sequences.
RECURSIVE JoinDot(_)
JoinDot(parts) ==
    IF Len(parts) = 1 THEN parts[1] ELSE parts[1] \o "." \o JoinDot(Tail(parts))

RECURSIVE candidate_pk_cols(_, _)
candidate_pk_cols(sequences, table_name) ==
    IF sequences = <<>> THEN <<>>
    ELSE LET col == Head(sequences)
             rest == candidate_pk_cols(Tail(sequences), table_name)
         IN  IF HasDot(col)
             THEN IF TableOf(col) = table_name
                  THEN <<JoinDot(ColumnOf(col))>> \o rest ELSE rest
             ELSE <<JoinDot(col)>> \o rest

\* pk_col_index (1-based here): the first candidate found in cursor.description,
\* else the fallback, the first returned column.
pk_col_index(table_name, has_description) ==
    LET cands == SelectSeq(candidate_pk_cols(Cfg(config).sequences, table_name),
                           LAMBDA cand : cand \in Range(TableCols(table_name)))
    IN  IF has_description /\ cands # <<>>
        THEN SeqIndex(TableCols(table_name), cands[1])
        ELSE 1

\* {rv[pk]: rv[pk] for rv in returned_values if rv and len(rv) > pk}: an ordered
\* map, as the sequence of its items.
RECURSIVE pk_items(_, _, _)
pk_items(returned, pk, acc) ==
    IF returned = <<>> THEN acc
    ELSE LET rv == Head(returned)
         IN  IF Len(rv) >= pk /\ \A j \in 1..Len(acc) : acc[j].key # rv[pk]
             THEN pk_items(Tail(returned), pk, Append(acc, [key |-> rv[pk], val |-> rv[pk]]))
             ELSE pk_items(Tail(returned), pk, acc)

build_lookup_entry(returned, pk) == pk_items(returned, pk, <<>>)

(***************************************************************************)
(* orchestrator.py: process_all as a state machine                         *)
(***************************************************************************)
cfgVars == <<config, cursor, directory, files>>
runVars == <<success_count, failed_count, total_rows, total_skipped_sheets,
             file_stats, file_results, fi>>
localVars == <<mi, total_inserted_rows, skipped_sheets, sheet_processes, pending>>
storeVars == <<parent_pk_lookup, processed_tables, next_key>>

\* The functions checked on their own and main are not running.
NoCall == [op |-> "none"]
BiIdle == bi_call = NoCall /\ bi_ret = NoCall
PfIdle == pf_call = NoCall /\ pf_ret = NoCall
NsIdle == ns_call = NoCall /\ ns_ret = NoCall
CliIdle ==
    /\ cli_pc = "none" /\ cli_env = NoCall
    /\ summary_lines = <<>> /\ exit_code = -1
    /\ main_calls = <<>>
\* No ErrorLogBuffer is checked on its own.
ElIdle ==
    /\ el_records = <<>> /\ el_file_path = "None" /\ el_now = 0
    /\ el_disk = <<>> /\ el_appended = <<>> /\ el_flushes = <<>>

Init ==
    /\ config \in ConfigIds
    /\ cursor \in {"none", "live"}
    /\ directory \in DirectoryStates
    /\ files \in FileLists
    /\ directory # "dir" => files = <<>>
    /\ pc = "start"
    /\ fi = 1 /\ mi = 1
    /\ faults = 0
    /\ next_key = FirstKey
    /\ trace = <<>>
    /\ error_log = <<>> /\ log_file = <<>> /\ flushed = 0
    /\ parent_pk_lookup = <<>>
    /\ processed_tables = {}
    /\ total_inserted_rows = 0 /\ skipped_sheets = 0 /\ sheet_processes = <<>>
    /\ pending = NoPending
    /\ success_count = 0 /\ failed_count = 0 /\ total_rows = 0
    /\ total_skipped_sheets = 0
    /\ file_stats = <<>> /\ file_results = <<>>
    /\ result = [returned |-> FALSE]
    /\ nr_fp = [shape |-> "dict", entries |-> <<>>]
    /\ nr_table = "" /\ nr_processed = {} /\ nr_result = FALSE /\ nr_op = "init"
    /\ BiIdle /\ PfIdle /\ NsIdle /\ CliIdle /\ ElIdle

\* An outcome of a store or reader call: it succeeds, or it fails while the
\* fault budget of the run allows one more fault.
Outcome(ok) ==
    /\ ok \/ faults < MaxFaults
    /\ faults' = IF ok THEN faults ELSE faults + 1

\* Mutant of FinishFile: a failed file ends the file loop.
FinishFile_StopOnFailure(status, rows, skipped, sheets, err) ==
    /\ file_results' = Append(file_results,
           [name |-> fi, status |-> status, total_rows |-> rows,
            skipped_sheets |-> skipped, sheets |-> sheets, error |-> err])
    /\ success_count' = IF status = "success" THEN success_count + 1 ELSE success_count
    /\ total_rows' = IF status = "success" THEN total_rows + rows ELSE total_rows
    /\ failed_count' = IF status = "success" THEN failed_count ELSE failed_count + 1
    /\ total_skipped_sheets' = total_skipped_sheets + skipped
    /\ file_stats' = Append(file_stats,
           [file_name |-> fi, status |-> status, inserted_rows |-> rows])
    /\ fi' = fi + 1
    /\ mi' = 1 /\ total_inserted_rows' = 0 /\ skipped_sheets' = 0
    /\ sheet_processes' = <<>> /\ pending' = NoPending
    /\ pc' = IF fi = Len(files) \/ status = "failed" THEN "flush" ELSE "begin"

\* Mutant of FinishFile: the rows of a failed file are added to the run total.
FinishFile_CountAllRows(status, rows, skipped, sheets, err) ==
    /\ file_results' = Append(file_results,
           [name |-> fi, status |-> status, total_rows |-> rows,
            skipped_sheets |-> skipped, sheets |-> sheets, error |-> err])
    /\ success_count' = IF status = "success" THEN success_count + 1 ELSE success_count
    /\ total_rows' = total_rows + rows
    /\ failed_count' = IF status = "success" THEN failed_count ELSE failed_count + 1
    /\ total_skipped_sheets' = total_skipped_sheets + skipped
    /\ file_stats' = Append(file_stats,
           [file_name |-> fi, status |-> status, inserted_rows |-> rows])
    /\ fi' = fi + 1
    /\ mi' = 1 /\ total_inserted_rows' = 0 /\ skipped_sheets' = 0
    /\ sheet_processes' = <<>> /\ pending' = NoPending
    /\ pc' = IF fi = Len(files) THEN "flush" ELSE "begin"

\* The tail of one iteration of process_all's file loop, with the ExcelFile that
\* _process_single_file returned.
FinishFile(status, rows, skipped, sheets, err) ==
    /\ file_results' = Append(file_results,
           [name |-> fi, status |-> status, total_rows |-> rows,
            skipped_sheets |-> skipped, sheets |-> sheets, error |-> err])
    /\ success_count' = IF status = "success" THEN success_count + 1 ELSE success_count
    /\ total_rows' = IF status = "success" THEN total_rows + rows ELSE total_rows
    /\ failed_count' = IF status = "success" THEN failed_count ELSE failed_count + 1
    /\ total_skipped_sheets' = total_skipped_sheets + skipped
    /\ file_stats' = Append(file_stats,
           [file_name |-> fi, status |-> status, inserted_rows |-> rows])
    /\ fi' = fi + 1
    /\ mi' = 1 /\ total_inserted_rows' = 0 /\ skipped_sheets' = 0
    /\ sheet_processes' = <<>> /\ pending' = NoPending
    /\ pc' = IF fi = Len(files) THEN "flush" ELSE "begin"

\* Mutant of scan_excel_files: the directory is not checked; a path that cannot
\* be listed gives no files.
scan_excel_files_unchecked(dir, xlsx) == [ok |-> TRUE, file_paths |-> xlsx]

\* scan_excel_files: the .xlsx files of the directory, or ProcessingError.
scan_excel_files(dir, xlsx) ==
    IF dir = "missing" THEN [ok |-> FALSE, err |-> "Directory not found"]
    ELSE IF dir = "file" THEN [ok |-> FALSE, err |-> "Path is not a directory"]
    ELSE IF dir = "unreadable" THEN [ok |-> FALSE, err |-> "Error reading directory"]
    ELSE [ok |-> TRUE, file_paths |-> xlsx]

\* The ProcessingResult of the empty-directory return.
EmptyResult ==
    [returned |-> TRUE, success_files |-> 0, failed_files |-> 0,
     total_inserted_rows |-> 0, skipped_sheets |-> 0,
     throughput_rows_per_sec |-> 0, file_stats |-> <<>>]

\* Mutant of Start: an empty directory is a fatal error.
Start_EmptyRaises ==
    /\ pc = "start"
    /\ IF ~config_is_valid(Cfg(config))
       THEN pc' = "raised" /\ UNCHANGED result
       ELSE LET scan == scan_excel_files(directory, files)
            IN  IF ~scan.ok THEN pc' = "raised" /\ UNCHANGED result
                ELSE IF scan.file_paths = <<>>
                THEN pc' = "raised" /\ UNCHANGED result
                ELSE pc' = "begin" /\ UNCHANGED result
    /\ UNCHANGED <<cfgVars, runVars, localVars, storeVars, faults, trace,
                   error_log, log_file, flushed, auxVars>>

\* process_all up to the file loop: conversion of the mappings, the scan, and
\* the empty-directory return.
Start ==
    /\ pc = "start"
    /\ IF ~config_is_valid(Cfg(config))
       THEN pc' = "raised" /\ UNCHANGED result
       ELSE LET scan == scan_excel_files(directory, files)
            IN  IF ~scan.ok THEN pc' = "raised" /\ UNCHANGED result
                ELSE IF scan.file_paths = <<>>
                THEN pc' = "done" /\ result' = EmptyResult
                ELSE pc' = "begin" /\ UNCHANGED result
    /\ UNCHANGED <<cfgVars, runVars, localVars, storeVars, faults, trace,
                   error_log, log_file, flushed, auxVars>>

\* Mutant of BeginFile: the failed BEGIN is recorded but the file is processed.
BeginFile_NoReturn ==
    /\ pc = "begin"
    /\ IF cursor = "none"
       THEN /\ pc' = "read"
            /\ UNCHANGED <<runVars, localVars, faults, trace, error_log>>
       ELSE \E ok \in BOOLEAN :
            /\ Outcome(ok)
            /\ trace' = Append(trace, [ev |-> "BEGIN", file |-> fi, ok |-> ok])
            /\ IF ok
               THEN pc' = "read" /\ UNCHANGED <<runVars, localVars, error_log>>
               ELSE /\ error_log' = Append(error_log,
                          ErrorRecord(fi, FILE_LEVEL, "TRANSACTION_BEGIN_ERROR"))
                    /\ pc' = "read" /\ UNCHANGED <<runVars, localVars>>
    /\ UNCHANGED <<cfgVars, storeVars, log_file, flushed, result, auxVars>>

\* _process_single_file: cursor.execute("BEGIN") and its failure path.
BeginFile ==
    /\ pc = "begin"
    /\ IF cursor = "none"
       THEN /\ pc' = "read"
            /\ UNCHANGED <<runVars, localVars, faults, trace, error_log>>
       ELSE \E ok \in BOOLEAN :
            /\ Outcome(ok)
            /\ trace' = Append(trace, [ev |-> "BEGIN", file |-> fi, ok |-> ok])
            /\ IF ok
               THEN pc' = "read" /\ UNCHANGED <<runVars, localVars, error_log>>
               ELSE /\ error_log' = Append(error_log,
                          ErrorRecord(fi, FILE_LEVEL, "TRANSACTION_BEGIN_ERROR"))
                    /\ FinishFile("failed", 0, 0, <<>>, "Failed to begin transaction")
    /\ UNCHANGED <<cfgVars, storeVars, log_file, flushed, result, auxVars>>

\* Mutant of ReadWorkbook: a parse failure is recorded without a ROLLBACK.
ReadWorkbook_NoRollback ==
    /\ pc = "read"
    /\ \E ok \in BOOLEAN :
       /\ Outcome(ok)
       /\ trace' = Append(trace, [ev |-> "READ", file |-> fi, ok |-> ok])
       /\ IF ok
          THEN pc' = "sheets" /\ UNCHANGED <<runVars, localVars, error_log>>
          ELSE /\ error_log' = Append(error_log,
                     ErrorRecord(fi, FILE_LEVEL, "PROCESSING_ERROR"))
               /\ FinishFile("failed", 0, 0, <<>>, "str(e)")
    /\ UNCHANGED <<cfgVars, storeVars, log_file, flushed, result, auxVars>>

\* Mutant of ReadWorkbook: a parse failure leaves _process_single_file as an
\* exception.
ReadWorkbook_Reraise ==
    /\ pc = "read"
    /\ \E ok \in BOOLEAN :
       /\ Outcome(ok)
       /\ trace' = Append(trace, [ev |-> "READ", file |-> fi, ok |-> ok])
       /\ pc' = IF ok THEN "sheets" ELSE "raised"
       /\ UNCHANGED <<runVars, localVars, error_log>>
    /\ UNCHANGED <<cfgVars, storeVars, log_file, flushed, result, auxVars>>

\* _process_single_file: read_excel_file, and the outer except when it raises.
ReadWorkbook ==
    /\ pc = "read"
    /\ \E ok \in BOOLEAN :
       /\ IF ok
          THEN /\ Outcome(TRUE)
               /\ trace' = Append(trace, [ev |-> "READ", file |-> fi, ok |-> TRUE])
               /\ pc' = "sheets"
               /\ UNCHANGED <<runVars, localVars, error_log>>
          ELSE \E rb \in BOOLEAN :
               /\ faults + (IF rb \/ cursor = "none" THEN 1 ELSE 2) <= MaxFaults
               /\ faults' = faults + (IF rb \/ cursor = "none" THEN 1 ELSE 2)
               /\ (cursor = "none") => rb
               /\ trace' = trace \o <<[ev |-> "READ", file |-> fi, ok |-> FALSE]>>
                      \o (IF cursor = "live"
                          THEN <<[ev |-> "ROLLBACK", file |-> fi, ok |-> rb]>> ELSE <<>>)
               /\ error_log' = error_log
                      \o (IF rb THEN <<>>
                          ELSE <<ErrorRecord(fi, FILE_LEVEL, "TRANSACTION_ROLLBACK_ERROR")>>)
                      \o <<ErrorRecord(fi, FILE_LEVEL, "PROCESSING_ERROR")>>
               /\ FinishFile("failed", 0, 0, <<>>, "str(e)")
    /\ UNCHANGED <<cfgVars, storeVars, log_file, flushed, result, auxVars>>

\* Mutant of SkipSheet: the absent sheet is passed over without being counted.
SkipSheet_Uncounted ==
    /\ pc = "sheets"
    /\ mi <= Len(sheet_mappings)
    /\ ~SheetPresent(sheet_mappings[mi].sheet_name)
    /\ mi' = mi + 1
    /\ UNCHANGED <<cfgVars, runVars, storeVars, pc, faults, trace, error_log,
                   log_file, flushed, total_inserted_rows, skipped_sheets,
                   sheet_processes, pending, result, auxVars>>

\* The sheet loop: a configured sheet that is absent from the workbook.
SkipSheet ==
    /\ pc = "sheets"
    /\ mi <= Len(sheet_mappings)
    /\ ~SheetPresent(sheet_mappings[mi].sheet_name)
    /\ skipped_sheets' = skipped_sheets + 1
    /\ mi' = mi + 1
    /\ UNCHANGED <<cfgVars, runVars, storeVars, pc, faults, trace, error_log,
                   log_file, flushed, total_inserted_rows, sheet_processes,
                   pending, result, auxVars>>

SheetProcess(m, inserted_rows, err) ==
    [sheet_name |-> m.sheet_name, table_name |-> m.table_name,
     inserted_rows |-> inserted_rows, error |-> err]

\* Mutant of SheetFailed: no ROLLBACK after the failed sheet.
SheetFailed_NoRollback(m, error_type, events) ==
    \E rb \in BOOLEAN :
    /\ (cursor = "none") => rb
    /\ faults + (IF rb THEN 0 ELSE 1) + (IF error_type \in {"UNEXPECTED_ERROR", "DATABASE_INSERT_ERROR"} THEN 1 ELSE 0) <= MaxFaults
    /\ faults' = faults + (IF rb THEN 0 ELSE 1) + (IF error_type \in {"UNEXPECTED_ERROR", "DATABASE_INSERT_ERROR"} THEN 1 ELSE 0)
    /\ error_log' = Append(error_log, ErrorRecord(fi, m.sheet_name, error_type))
    /\ trace' = trace \o events
    /\ FinishFile("failed", total_inserted_rows + 0, skipped_sheets,
                  Append(sheet_processes, SheetProcess(m, 0, error_type)),
                  "sheet failure")

\* Mutant of SheetFailed: the loop goes on with the next sheet.
SheetFailed_NoBreak(m, error_type, events) ==
    \E rb \in BOOLEAN :
    /\ (cursor = "none") => rb
    /\ faults + (IF rb THEN 0 ELSE 1) + (IF error_type \in {"UNEXPECTED_ERROR", "DATABASE_INSERT_ERROR"} THEN 1 ELSE 0) <= MaxFaults
    /\ faults' = faults + (IF rb THEN 0 ELSE 1) + (IF error_type \in {"UNEXPECTED_ERROR", "DATABASE_INSERT_ERROR"} THEN 1 ELSE 0)
    /\ error_log' = Append(error_log, ErrorRecord(fi, m.sheet_name, error_type))
    /\ trace' = trace \o events
           \o (IF cursor = "live"
               THEN <<[ev |-> "ROLLBACK", file |-> fi, ok |-> rb]>> ELSE <<>>)
    /\ sheet_processes' = Append(sheet_processes, SheetProcess(m, 0, error_type))
    /\ mi' = mi + 1 /\ pc' = "sheets" /\ pending' = NoPending
    /\ UNCHANGED <<runVars, total_inserted_rows, skipped_sheets>>

\* Mutant of SheetFailed: every sheet failure is recorded as unexpected.
SheetFailed_Unclassified(m, error_type, events) ==
    \E rb \in BOOLEAN :
    /\ (cursor = "none") => rb
    /\ faults + (IF rb THEN 0 ELSE 1) + (IF error_type \in {"UNEXPECTED_ERROR", "DATABASE_INSERT_ERROR"} THEN 1 ELSE 0) <= MaxFaults
    /\ faults' = faults + (IF rb THEN 0 ELSE 1) + (IF error_type \in {"UNEXPECTED_ERROR", "DATABASE_INSERT_ERROR"} THEN 1 ELSE 0)
    /\ error_log' = Append(error_log, ErrorRecord(fi, m.sheet_name, "UNEXPECTED_ERROR"))
    /\ trace' = trace \o events
           \o (IF cursor = "live"
               THEN <<[ev |-> "ROLLBACK", file |-> fi, ok |-> rb]>> ELSE <<>>)
    /\ FinishFile("failed", total_inserted_rows + 0, skipped_sheets,
                  Append(sheet_processes, SheetProcess(m, 0, error_type)),
                  "sheet failure")

\* The sheet loop after a sheet that returned an error: ROLLBACK (its failure is
\* swallowed), break, and the failed ExcelFile.
SheetFailed(m, error_type, events) ==
    \E rb \in BOOLEAN :
    /\ (cursor = "none") => rb
    /\ faults + (IF rb THEN 0 ELSE 1) + (IF error_type \in {"UNEXPECTED_ERROR", "DATABASE_INSERT_ERROR"} THEN 1 ELSE 0) <= MaxFaults
    /\ faults' = faults + (IF rb THEN 0 ELSE 1) + (IF error_type \in {"UNEXPECTED_ERROR", "DATABASE_INSERT_ERROR"} THEN 1 ELSE 0)
    /\ error_log' = Append(error_log, ErrorRecord(fi, m.sheet_name, error_type))
    /\ trace' = trace \o events
           \o (IF cursor = "live"
               THEN <<[ev |-> "ROLLBACK", file |-> fi, ok |-> rb]>> ELSE <<>>)
    /\ FinishFile("failed", total_inserted_rows + 0, skipped_sheets,
                  Append(sheet_processes, SheetProcess(m, 0, error_type)),
                  "sheet failure")

\* The sheet loop after a sheet that returned no error.
SheetSucceeded(m, inserted_rows, events) ==
    /\ trace' = trace \o events
    /\ sheet_processes' = Append(sheet_processes, SheetProcess(m, inserted_rows, NoError))
    /\ total_inserted_rows' = total_inserted_rows + inserted_rows
    /\ mi' = mi + 1
    /\ pc' = "sheets"
    /\ pending' = NoPending
    /\ UNCHANGED <<runVars, skipped_sheets, error_log>>

\* Mutant of do_returning_of: RETURNING for every table once a store handle exists.
do_returning_always(table_name) == cursor = "live"

\* do_returning: RETURNING is asked for only with a store handle, and then as
\* needs_returning says for the tables processed so far.
do_returning_of(table_name) ==
    IF cursor = "live"
    THEN needs_returning(table_name, Cfg(config).fk_propagations, processed_tables)
    ELSE FALSE

\* Mutant of mock_inserted_rows: mock mode reports no rows.
mock_inserted_rows_none(insert_rows) == 0

\* Mock mode: inserted_rows = len(insert_rows).
mock_inserted_rows(insert_rows) == Len(insert_rows)

\* Mutant of PrepareSheet: a sheet without data rows goes on to the batch insert.
PrepareSheet_EmptyInserted ==
    /\ pc = "sheets"
    /\ mi <= Len(sheet_mappings)
    /\ SheetPresent(sheet_mappings[mi].sheet_name)
    /\ LET m == sheet_mappings[mi]
           ev(outcome) == [ev |-> "NORMALIZE", file |-> fi, sheet |-> m.sheet_name,
                           outcome |-> outcome]
           sheet_data == normalize_sheet(SheetDf(m.sheet_name), expected_columns(m),
                                         m.default_values, m.null_sentinels)
       IN  \/ SheetFailed(m, "UNEXPECTED_ERROR", <<ev("Exception")>>)
           \/ /\ ~sheet_data.ok
              /\ SheetFailed(m, "SHEET_VALIDATION_ERROR", <<ev(sheet_data.err)>>)
           \/ /\ sheet_data.ok
              /\ LET insert_columns == insert_columns_of(sheet_data.columns, m.sequence_columns)
                     do_returning == do_returning_of(m.table_name)
                     raw_rows == insert_rows_of(sheet_data.rows, insert_columns)
                     insert_rows == IF m.fk_propagation_columns # {} /\ cursor = "live"
                                    THEN fill_fk_cells(raw_rows, insert_columns,
                                             m.fk_propagation_columns, fk_maps, parent_pk_lookup)
                                    ELSE raw_rows
                 IN  IF cursor = "none"
                     THEN SheetSucceeded(m, mock_inserted_rows(insert_rows), <<ev("ok")>>)
                          /\ UNCHANGED faults
                     ELSE /\ pending' = [active |-> TRUE, table |-> m.table_name,
                                         columns |-> insert_columns, rows |-> insert_rows,
                                         returning |-> do_returning]
                          /\ trace' = Append(trace, ev("ok"))
                          /\ pc' = "insert"
                          /\ UNCHANGED <<runVars, mi, total_inserted_rows, skipped_sheets,
                                         sheet_processes, error_log, faults>>
    /\ UNCHANGED <<cfgVars, storeVars, log_file, flushed, result, auxVars>>

\* _process_single_sheet up to the batch insert: normalize_sheet, needs_returning,
\* the insert rows and the inline FK fill.
PrepareSheet ==
    /\ pc = "sheets"
    /\ mi <= Len(sheet_mappings)
    /\ SheetPresent(sheet_mappings[mi].sheet_name)
    /\ LET m == sheet_mappings[mi]
           ev(outcome) == [ev |-> "NORMALIZE", file |-> fi, sheet |-> m.sheet_name,
                           outcome |-> outcome]
           sheet_data == normalize_sheet(SheetDf(m.sheet_name), expected_columns(m),
                                         m.default_values, m.null_sentinels)
       IN  \/ SheetFailed(m, "UNEXPECTED_ERROR", <<ev("Exception")>>)
           \/ /\ ~sheet_data.ok
              /\ SheetFailed(m, "SHEET_VALIDATION_ERROR", <<ev(sheet_data.err)>>)
           \/ /\ sheet_data.ok
              /\ sheet_data.rows = <<>>
              /\ SheetSucceeded(m, 0, <<ev("ok")>>)
              /\ UNCHANGED faults
           \/ /\ sheet_data.ok
              /\ sheet_data.rows # <<>>
              /\ LET insert_columns == insert_columns_of(sheet_data.columns, m.sequence_columns)
                     do_returning == do_returning_of(m.table_name)
                     raw_rows == insert_rows_of(sheet_data.rows, insert_columns)
                     insert_rows == IF m.fk_propagation_columns # {} /\ cursor = "live"
                                    THEN fill_fk_cells(raw_rows, insert_columns,
                                             m.fk_propagation_columns, fk_maps, parent_pk_lookup)
                                    ELSE raw_rows
                 IN  IF cursor = "none"
                     THEN SheetSucceeded(m, mock_inserted_rows(insert_rows), <<ev("ok")>>)
                          /\ UNCHANGED faults
                     ELSE /\ pending' = [active |-> TRUE, table |-> m.table_name,
                                         columns |-> insert_columns, rows |-> insert_rows,
                                         returning |-> do_returning]
                          /\ trace' = Append(trace, ev("ok"))
                          /\ pc' = "insert"
                          /\ UNCHANGED <<runVars, mi, total_inserted_rows, skipped_sheets,
                                         sheet_processes, error_log, faults>>
    /\ UNCHANGED <<cfgVars, storeVars, log_file, flushed, result, auxVars>>

\* _process_single_sheet from the batch insert on: batch_insert, the parent key
\* lookup, and the sheet's result.
InsertSheet ==
    /\ pc = "insert"
    /\ LET m == sheet_mappings[mi]
           call == [ev |-> "INSERT", file |-> fi, sheet |-> m.sheet_name,
                    table |-> pending.table, columns |-> pending.columns,
                    rows |-> pending.rows, returning |-> pending.returning,
                    returned |-> <<>>]
       IN  \/ \E stage \in {"execute", "fetch"} :
              /\ (stage = "fetch") => pending.returning
              /\ SheetFailed(m, "DATABASE_INSERT_ERROR",
                             << [call EXCEPT !.ev = "INSERT_FAILED"] >>)
              /\ next_key' = IF stage = "fetch" THEN next_key + Len(pending.rows)
                             ELSE next_key
              /\ UNCHANGED <<parent_pk_lookup, processed_tables>>
           \/ \E has_description \in BOOLEAN :
              LET returned_values == returned_values_of(pending.table, pending.columns,
                                                        pending.rows, next_key)
                  pk == pk_col_index(pending.table, has_description)
              IN  /\ has_description => pending.returning
                  /\ SheetSucceeded(m, Len(pending.rows),
                         << [call EXCEPT !.returned = IF pending.returning
                                                      THEN returned_values ELSE <<>>] >>)
                  /\ next_key' = next_key + Len(pending.rows)
                  /\ IF pending.returning /\ returned_values # <<>>
                     THEN /\ parent_pk_lookup' =
                               [t \in DOMAIN parent_pk_lookup \cup {pending.table} |->
                                   IF t = pending.table
                                   THEN build_lookup_entry(returned_values, pk)
                                   ELSE parent_pk_lookup[t]]
                          /\ processed_tables' = processed_tables \cup {pending.table}
                     ELSE UNCHANGED <<parent_pk_lookup, processed_tables>>
                  /\ UNCHANGED faults
    /\ UNCHANGED <<cfgVars, log_file, flushed, result, auxVars>>

\* Mutant of CommitFile: a failed COMMIT is rolled back and recorded, but the
\* file is returned as a success.
CommitFile_PartialSuccess ==
    /\ pc = "sheets"
    /\ mi > Len(sheet_mappings)
    /\ IF cursor = "none"
       THEN /\ FinishFile("success", total_inserted_rows, skipped_sheets,
                          sheet_processes, NoError)
            /\ UNCHANGED <<faults, trace, error_log>>
       ELSE \E ok \in BOOLEAN, rb \in BOOLEAN :
            /\ ok => rb
            /\ faults + (IF ok THEN 0 ELSE 1) + (IF rb THEN 0 ELSE 1) <= MaxFaults
            /\ faults' = faults + (IF ok THEN 0 ELSE 1) + (IF rb THEN 0 ELSE 1)
            /\ trace' = trace \o <<[ev |-> "COMMIT", file |-> fi, ok |-> ok]>>
                   \o (IF ok THEN <<>> ELSE <<[ev |-> "ROLLBACK", file |-> fi, ok |-> rb]>>)
            /\ error_log' = IF ok THEN error_log
                            ELSE Append(error_log,
                                   ErrorRecord(fi, FILE_LEVEL, "TRANSACTION_COMMIT_ERROR"))
            /\ FinishFile("success", total_inserted_rows, skipped_sheets,
                          sheet_processes, NoError)
    /\ UNCHANGED <<cfgVars, storeVars, log_file, flushed, result, auxVars>>

\* _process_single_file after the sheet loop: COMMIT, its failure path, and the
\* successful ExcelFile.
CommitFile ==
    /\ pc = "sheets"
    /\ mi > Len(sheet_mappings)
    /\ IF cursor = "none"
       THEN /\ FinishFile("success", total_inserted_rows, skipped_sheets,
                          sheet_processes, NoError)
            /\ UNCHANGED <<faults, trace, error_log>>
       ELSE \E ok \in BOOLEAN, rb \in BOOLEAN :
            /\ ok => rb
            /\ faults + (IF ok THEN 0 ELSE 1) + (IF rb THEN 0 ELSE 1) <= MaxFaults
            /\ faults' = faults + (IF ok THEN 0 ELSE 1) + (IF rb THEN 0 ELSE 1)
            /\ trace' = trace \o <<[ev |-> "COMMIT", file |-> fi, ok |-> ok]>>
                   \o (IF ok THEN <<>> ELSE <<[ev |-> "ROLLBACK", file |-> fi, ok |-> rb]>>)
            /\ IF ok
               THEN /\ FinishFile("success", total_inserted_rows, skipped_sheets,
                                  sheet_processes, NoError)
                    /\ UNCHANGED error_log
               ELSE /\ error_log' = Append(error_log,
                          ErrorRecord(fi, FILE_LEVEL, "TRANSACTION_COMMIT_ERROR"))
                    /\ FinishFile("failed", total_inserted_rows, skipped_sheets,
                                  sheet_processes, "commit failed")
    /\ UNCHANGED <<cfgVars, storeVars, log_file, flushed, result, auxVars>>

\* throughput_rows_per_sec up to its sign (0: exactly 0.0, 1: positive):
\* total_rows / elapsed_seconds when the clock advanced, else 0.0.
throughput_sign(rows, elapsed_positive) ==
    IF elapsed_positive THEN (IF rows > 0 THEN 1 ELSE 0) ELSE 0

\* Mutant of FlushAndReturn: the result is returned without flushing.
FlushAndReturn_NoFlush ==
    /\ pc = "flush"
    /\ \E elapsed_positive \in BOOLEAN :
       result' = [returned |-> TRUE, success_files |-> success_count,
                  failed_files |-> failed_count,
                  total_inserted_rows |-> total_rows,
                  skipped_sheets |-> total_skipped_sheets,
                  throughput_rows_per_sec |-> throughput_sign(total_rows, elapsed_positive),
                  file_stats |-> file_stats]
    /\ pc' = "done"
    /\ UNCHANGED <<cfgVars, runVars, localVars, storeVars, auxVars, faults, trace,
                   flushed, log_file, error_log>>

\* Mutant of FlushAndReturn: a failing flush is raised to the caller.
FlushAndReturn_RaiseOnFailure ==
    /\ pc = "flush"
    /\ \E ok \in BOOLEAN :
       /\ Outcome(ok)
       /\ trace' = Append(trace, [ev |-> "FLUSH", ok |-> ok])
       /\ flushed' = flushed + 1
       /\ IF ok
          THEN log_file' = log_file \o error_log /\ error_log' = <<>>
          ELSE UNCHANGED <<log_file, error_log>>
       /\ IF ok
          THEN /\ \E elapsed_positive \in BOOLEAN :
                  result' = [returned |-> TRUE, success_files |-> success_count,
                             failed_files |-> failed_count,
                             total_inserted_rows |-> total_rows,
                             skipped_sheets |-> total_skipped_sheets,
                             throughput_rows_per_sec |->
                                 throughput_sign(total_rows, elapsed_positive),
                             file_stats |-> file_stats]
               /\ pc' = "done"
          ELSE pc' = "raised" /\ UNCHANGED result
    /\ UNCHANGED <<cfgVars, runVars, localVars, storeVars, auxVars>>

\* process_all after the file loop: the single flush of the error log (a failure
\* is swallowed) and the ProcessingResult.
FlushAndReturn ==
    /\ pc = "flush"
    /\ \E ok \in BOOLEAN :
       /\ Outcome(ok)
       /\ trace' = Append(trace, [ev |-> "FLUSH", ok |-> ok])
       /\ flushed' = flushed + 1
       /\ IF ok
          THEN log_file' = log_file \o error_log /\ error_log' = <<>>
          ELSE UNCHANGED <<log_file, error_log>>
    /\ \E elapsed_positive \in BOOLEAN :
       result' = [returned |-> TRUE, success_files |-> success_count,
                  failed_files |-> failed_count,
                  total_inserted_rows |-> total_rows,
                  skipped_sheets |-> total_skipped_sheets,
                  throughput_rows_per_sec |-> throughput_sign(total_rows, elapsed_positive),
                  file_stats |-> file_stats]
    /\ pc' = "done"
    /\ UNCHANGED <<cfgVars, runVars, localVars, storeVars, auxVars>>

Next ==
    \/ Start
    \/ BeginFile
    \/ ReadWorkbook
    \/ SkipSheet
    \/ PrepareSheet
    \/ InsertSheet
    \/ CommitFile
    \/ FlushAndReturn

Spec == Init /\ [][Next]_vars

(***************************************************************************)
(* needs_returning on its own: any fk_propagations of up to MaxPairs pairs *)
(* in either shape, queried while tables are added to processed_tables,    *)
(* as tests/unit/test_fk_propagation.py does.                              *)
(***************************************************************************)
NrParentRefs == { <<"p">>, <<"p", "n">>, <<"p", "m">>, <<"q", "n">> }
NrChildRefs == { <<"c">>, <<"c", "f">>, <<"d", "f">> }
NrTables == {"p", "q"}
NrChildTables == {"c", "d"}

NrListEntries == [parent : NrParentRefs \cup {<<>>}, child : NrChildRefs]
NrDictItems == [parent : NrParentRefs, child : NrChildRefs]

NrInputs ==
    UNION { { [shape |-> "list", entries |-> es] : es \in [1..n -> NrListEntries] }
            \cup
            { [shape |-> "dict", entries |-> es] :
                es \in { x \in [1..n -> NrDictItems] :
                           \A a, b \in 1..n : x[a].parent = x[b].parent => a = b } }
            : n \in 0..MaxPairs }

InitNR ==
    /\ config = "pc" /\ cursor = "none" /\ directory = "dir" /\ files = <<>>
    /\ pc = "idle"
    /\ fi = 1 /\ mi = 1
    /\ faults = 0
    /\ next_key = FirstKey
    /\ trace = <<>>
    /\ error_log = <<>> /\ log_file = <<>> /\ flushed = 0
    /\ parent_pk_lookup = <<>>
    /\ processed_tables = {}
    /\ total_inserted_rows = 0 /\ skipped_sheets = 0 /\ sheet_processes = <<>>
    /\ pending = NoPending
    /\ success_count = 0 /\ failed_count = 0 /\ total_rows = 0
    /\ total_skipped_sheets = 0
    /\ file_stats = <<>> /\ file_results = <<>>
    /\ result = [returned |-> FALSE]
    /\ nr_fp \in NrInputs
    /\ nr_table = "" /\ nr_processed = {} /\ nr_result = FALSE /\ nr_op = "init"
    /\ BiIdle /\ PfIdle /\ NsIdle /\ CliIdle /\ ElIdle

\* needs_returning(table, config, processed_tables)
NrQuery ==
    /\ pc = "idle"
    /\ \E t \in NrTables :
       /\ nr_table' = t
       /\ nr_result' = needs_returning(t, nr_fp, nr_processed)
    /\ nr_op' = "query"
    /\ UNCHANGED <<mainVars, hVars, elVars, nr_fp, nr_processed>>

\* processed_tables.add(child) followed by the same query
NrAddProcessed ==
    /\ pc = "idle"
    /\ nr_op # "init"
    /\ \E c \in NrChildTables \ nr_processed :
       /\ nr_processed' = nr_processed \cup {c}
       /\ nr_result' = needs_returning(nr_table, nr_fp, nr_processed \cup {c})
    /\ nr_op' = "add"
    /\ UNCHANGED <<mainVars, hVars, elVars, nr_fp, nr_table>>

NextNR == NrQuery \/ NrAddProcessed

SpecNR == InitNR /\ [][NextNR]_vars

(***************************************************************************)
(* db/batch_insert.py: batch_insert on its own                             *)
(***************************************************************************)
MaxBatchRows == 2

\* Main and the needs_returning harness are not running.
MainIdle ==
    /\ config = "pc" /\ cursor = "none" /\ directory = "dir" /\ files = <<>>
    /\ pc = "idle"
    /\ fi = 1 /\ mi = 1
    /\ faults = 0
    /\ next_key = FirstKey
    /\ trace = <<>>
    /\ error_log = <<>> /\ log_file = <<>> /\ flushed = 0
    /\ parent_pk_lookup = <<>>
    /\ processed_tables = {}
    /\ total_inserted_rows = 0 /\ skipped_sheets = 0 /\ sheet_processes = <<>>
    /\ pending = NoPending
    /\ success_count = 0 /\ failed_count = 0 /\ total_rows = 0
    /\ total_skipped_sheets = 0
    /\ file_stats = <<>> /\ file_results = <<>>
    /\ result = [returned |-> FALSE]
NrIdle ==
    /\ nr_fp = [shape |-> "dict", entries |-> <<>>]
    /\ nr_table = "" /\ nr_processed = {} /\ nr_result = FALSE /\ nr_op = "init"

\* BatchInsertError(message), as the caller sees it.
BatchInsertError(message, calls) ==
    [op |-> "raised", exc |-> "BatchInsertError", message |-> message, calls |-> calls]

\* InsertResult(inserted_rows, returned_values), as the caller sees it.
InsertResult(inserted_rows, returned_values, calls) ==
    [op |-> "returned", inserted_rows |-> inserted_rows,
     returned_values |-> returned_values, calls |-> calls]

\* The statement and VALUES template batch_insert builds.
bi_sql(call) ==
    [table |-> call.table, columns |-> call.columns,
     values_clause |-> call.blob_columns = {},
     template |-> IF call.blob_columns # {}
                  THEN [j \in 1..Len(call.columns) |->
                           IF call.columns[j] \in call.blob_columns
                           THEN "pg_read_binary_file(%s)" ELSE "%s"]
                  ELSE <<>>,
     returning |-> call.returning]

\* The execute_values call.
bi_execute_call(call) ==
    [prim |-> "execute_values", sql |-> bi_sql(call), rows |-> call.rows]

\* Mutant of bi_empty_return: an empty batch is executed like any other.
bi_empty_return_executes(call) ==
    InsertResult(0, IF call.returning THEN [k |-> "list", v |-> <<>>] ELSE NoneV,
                 <<bi_execute_call(call)>>)

\* The early return for an empty row list.
bi_empty_return(call) ==
    InsertResult(0, IF call.returning THEN [k |-> "list", v |-> <<>>] ELSE NoneV, <<>>)

\* Mutant of bi_metrics: the callback is invoked only when the insert succeeded.
bi_metrics_on_success(call, env) ==
    IF call.has_callback /\ env.execute_ok
    THEN << [prim |-> "metrics_callback", batch_size |-> Len(call.rows),
             elapsed_seconds |-> (env.start_time + env.elapsed) - env.start_time,
             start_time |-> env.start_time,
             end_time |-> env.start_time + env.elapsed] >>
    ELSE <<>>

\* The finally block: end_time is read and the callback, if any, is invoked.
bi_metrics(call, env) ==
    IF call.has_callback
    THEN << [prim |-> "metrics_callback", batch_size |-> Len(call.rows),
             elapsed_seconds |-> (env.start_time + env.elapsed) - env.start_time,
             start_time |-> env.start_time,
             end_time |-> env.start_time + env.elapsed] >>
    ELSE <<>>

\* What cursor.fetchall() gives after RETURNING *: the generated key and the row.
bi_fetched(call) ==
    [r \in 1..Len(call.rows) |-> <<IntV(FirstKey + r - 1)>> \o call.rows[r]]

\* Mutant of bi_fetch: the exception of fetchall reaches the caller as it is.
bi_fetch_raw_error(call, env, calls) ==
    IF ~call.returning THEN InsertResult(Len(call.rows), NoneV, calls)
    ELSE IF env.fetch_ok
    THEN InsertResult(Len(call.rows), [k |-> "list", v |-> bi_fetched(call)],
                      Append(calls, [prim |-> "fetchall"]))
    ELSE [op |-> "raised", exc |-> "DriverError", message |-> <<env.fetch_error>>,
          calls |-> Append(calls, [prim |-> "fetchall"])]

\* The fetch of the returned rows and the return of batch_insert.
bi_fetch(call, env, calls) ==
    IF ~call.returning THEN InsertResult(Len(call.rows), NoneV, calls)
    ELSE IF env.fetch_ok
    THEN InsertResult(Len(call.rows), [k |-> "list", v |-> bi_fetched(call)],
                      Append(calls, [prim |-> "fetchall"]))
    ELSE BatchInsertError(<<"failed fetching RETURNING rows: ", env.fetch_error>>,
                          Append(calls, [prim |-> "fetchall"]))

\* batch_insert(cursor, table, columns, rows, returning, metrics_callback,
\* blob_columns): what the caller gets and the primitives invoked, in order.
\* env is what the call meets: whether execute_values and fetchall succeed,
\* their error messages, and the two clock readings.
batch_insert(call, env) ==
    IF ~call.driver THEN BatchInsertError(<<"psycopg2 not available">>, <<>>)
    ELSE IF call.rows = <<>> THEN bi_empty_return(call)
    ELSE LET calls == <<bi_execute_call(call)>> \o bi_metrics(call, env)
         IN  IF ~env.execute_ok THEN BatchInsertError(<<env.execute_error>>, calls)
             ELSE bi_fetch(call, env, calls)

BiRows == { <<IntV(1), Alice>>, <<IntV(2), Bob>> }
BiRowLists == UNION { [1..n -> BiRows] : n \in 0..MaxBatchRows }
BiCalls ==
    [op : {"batch_insert"}, driver : BOOLEAN, table : {"customers"},
     columns : { <<"id", "name">> }, rows : BiRowLists, returning : BOOLEAN,
     has_callback : BOOLEAN, blob_columns : { {}, {"name"} }]
\* time.time() read twice: the clock does not run backwards between the reads.
BiEnvs ==
    [execute_ok : BOOLEAN, fetch_ok : BOOLEAN,
     execute_error : {"E_insert"}, fetch_error : {"E_fetch"},
     start_time : 0..1, elapsed : 0..1]

InitBI ==
    /\ MainIdle /\ NrIdle /\ PfIdle /\ NsIdle /\ CliIdle /\ ElIdle
    /\ bi_call \in BiCalls
    /\ bi_ret = NoCall

\* One call of batch_insert.
BiCall ==
    /\ bi_call # NoCall /\ bi_ret = NoCall
    /\ \E env \in BiEnvs :
          bi_ret' = [out |-> batch_insert(bi_call, env), env |-> env]
    /\ UNCHANGED <<mainVars, nrVars, bi_call, pf_call, pf_ret, ns_call, ns_ret,
                   cli_pc, cli_env, summary_lines, exit_code, main_calls, elVars>>

NextBI == BiCall

SpecBI == InitBI /\ [][NextBI]_vars

(***************************************************************************)
(* services/fk_propagation.py: propagate_foreign_keys on its own           *)
(***************************************************************************)
MaxChildRows == 2
MaxRowLen == 2

Max(a, b) == IF a >= b THEN a ELSE b

\* seq[i] of Python on a sequence of length n: the 1-based position read for
\* index i (a negative index counts from the end), defined when IndexInRange.
IndexInRange(n, i) == -n <= i /\ i < n
IndexPos(n, i) == IF i >= 0 THEN i + 1 ELSE n + i + 1

\* Mutant of pf_row: a row whose identifier is not in the map is passed through.
pf_row_pass_through(row, parent_pk_map, child_fk_column_index, child_identifier_column_index) ==
    IF Len(row) <= Max(child_fk_column_index, child_identifier_column_index)
    THEN [ok |-> FALSE, exc |-> "FKPropagationError"]
    ELSE IF ~IndexInRange(Len(row), child_identifier_column_index)
    THEN [ok |-> FALSE, exc |-> "IndexError"]
    ELSE LET identifier_value == row[IndexPos(Len(row), child_identifier_column_index)]
         IN  IF identifier_value \notin DOMAIN parent_pk_map
             THEN [ok |-> TRUE, row |-> row]
             ELSE IF ~IndexInRange(Len(row), child_fk_column_index)
             THEN [ok |-> FALSE, exc |-> "IndexError"]
             ELSE [ok |-> TRUE,
                   row |-> [row EXCEPT ![IndexPos(Len(row), child_fk_column_index)] =
                                          parent_pk_map[identifier_value]]]

\* The body of the loop of propagate_foreign_keys for one row: the propagated
\* row, or the exception raised.
pf_row(row, parent_pk_map, child_fk_column_index, child_identifier_column_index) ==
    IF Len(row) <= Max(child_fk_column_index, child_identifier_column_index)
    THEN [ok |-> FALSE, exc |-> "FKPropagationError"]
    ELSE IF ~IndexInRange(Len(row), child_identifier_column_index)
    THEN [ok |-> FALSE, exc |-> "IndexError"]
    ELSE LET identifier_value == row[IndexPos(Len(row), child_identifier_column_index)]
         IN  IF identifier_value \notin DOMAIN parent_pk_map
             THEN [ok |-> FALSE, exc |-> "FKPropagationError"]
             ELSE IF ~IndexInRange(Len(row), child_fk_column_index)
             THEN [ok |-> FALSE, exc |-> "IndexError"]
             ELSE [ok |-> TRUE,
                   row |-> [row EXCEPT ![IndexPos(Len(row), child_fk_column_index)] =
                                          parent_pk_map[identifier_value]]]

RECURSIVE pf_loop(_, _, _, _, _, _)
pf_loop(child_rows, j, parent_pk_map, fk_idx, id_idx, propagated_rows) ==
    IF j > Len(child_rows) THEN [op |-> "returned", rows |-> propagated_rows]
    ELSE LET one == pf_row(child_rows[j], parent_pk_map, fk_idx, id_idx)
         IN  IF ~one.ok THEN [op |-> "raised", exc |-> one.exc, row |-> j]
             ELSE pf_loop(child_rows, j + 1, parent_pk_map, fk_idx, id_idx,
                          Append(propagated_rows, one.row))

\* propagate_foreign_keys(child_rows, fk_mapping, parent_pk_map,
\* child_fk_column_index, child_identifier_column_index); fk_mapping is not read.
propagate_foreign_keys(child_rows, fk_mapping, parent_pk_map, child_fk_column_index, child_identifier_column_index) ==
    pf_loop(child_rows, 1, parent_pk_map, child_fk_column_index,
            child_identifier_column_index, <<>>)

PfCells == {Alice, Bob}
PfRowTuples == UNION { [1..n -> PfCells] : n \in 0..MaxRowLen }
PfChildRows == UNION { [1..n -> PfRowTuples] : n \in 0..MaxChildRows }
\* parent_pk_map: identifier value -> generated key.
PfMaps == { [c \in d |-> IF c = Alice THEN IntV(FirstKey) ELSE IntV(FirstKey + 1)] :
            d \in SUBSET PfCells }
PfIndexes == -1..(MaxRowLen - 1)
PfCalls ==
    [op : {"propagate_foreign_keys"}, child_rows : PfChildRows,
     fk_mapping : {fk_append(ParentChildPair.parent, ParentChildPair.child)[1]},
     parent_pk_map : PfMaps,
     child_fk_column_index : PfIndexes, child_identifier_column_index : PfIndexes]

InitPF ==
    /\ MainIdle /\ NrIdle /\ BiIdle /\ NsIdle /\ CliIdle /\ ElIdle
    /\ pf_call \in PfCalls
    /\ pf_ret = NoCall

\* One call of propagate_foreign_keys.
PfCall ==
    /\ pf_call # NoCall /\ pf_ret = NoCall
    /\ pf_ret' = propagate_foreign_keys(pf_call.child_rows, pf_call.fk_mapping,
                     pf_call.parent_pk_map, pf_call.child_fk_column_index,
                     pf_call.child_identifier_column_index)
    /\ UNCHANGED <<mainVars, nrVars, bi_call, bi_ret, pf_call, ns_call, ns_ret,
                   cli_pc, cli_env, summary_lines, exit_code, main_calls, elVars>>

NextPF == PfCall

SpecPF == InitPF /\ [][NextPF]_vars

(***************************************************************************)
(* excel/reader.py: normalize_sheet on its own                             *)
(***************************************************************************)
MaxDataRows == 2

\* Cells of a data row: a missing cell, a whitespace-only string, " null",
\* " Alice " and an integer.
NsCells == {NaN, StrV(<<" ">>), StrV(<<" ", "null">>), StrV(<<" ", "Alice", " ">>), IntV(1)}
NsTitleRow == <<StrV(<<"title">>), NaN>>
NsHeaderRows == { <<StrV(<<"id">>), StrV(<<" ", "name", " ">>)>>,
                  <<NaN, StrV(<<"name">>)>> }
NsDataRowLists == UNION { [1..n -> [1..2 -> NsCells]] : n \in 0..MaxDataRows }
\* The raw sheets: no row, the title row only, or title, header and data rows.
NsGrids ==
    { <<>>, <<NsTitleRow>> } \cup
    { <<NsTitleRow, h>> \o d : h \in NsHeaderRows, d \in NsDataRowLists }
\* expected_columns, default_values and null_sentinels of the call; the
\* sentinels are upper-cased and trimmed as the orchestrator passes them.
NsSettings ==
    { [expected_columns |-> {}, default_values |-> <<>>, null_sentinels |-> {}],
      [expected_columns |-> {"name"}, default_values |-> [c \in {"name"} |-> IntV(0)],
       null_sentinels |-> {"NULL"}],
      [expected_columns |-> {"name"}, default_values |-> [c \in {"name"} |-> IntV(0)],
       null_sentinels |-> {"", "NULL"}],
      [expected_columns |-> {"name", "email"}, default_values |-> <<>>,
       null_sentinels |-> {"NULL"}] }
NsCalls ==
    { [op |-> "normalize_sheet", df |-> g, expected_columns |-> st.expected_columns,
       default_values |-> st.default_values, null_sentinels |-> st.null_sentinels] :
      g \in NsGrids, st \in NsSettings }

InitNS ==
    /\ MainIdle /\ NrIdle /\ BiIdle /\ PfIdle /\ CliIdle /\ ElIdle
    /\ ns_call \in NsCalls
    /\ ns_ret = NoCall

\* One call of normalize_sheet.
NsCall ==
    /\ ns_call # NoCall /\ ns_ret = NoCall
    /\ ns_ret' = normalize_sheet(ns_call.df, ns_call.expected_columns,
                                 ns_call.default_values, ns_call.null_sentinels)
    /\ UNCHANGED <<mainVars, nrVars, bi_call, bi_ret, pf_call, pf_ret, ns_call,
                   cli_pc, cli_env, summary_lines, exit_code, main_calls, elVars>>

NextNS == NsCall

SpecNS == InitNS /\ [][NextNS]_vars

(***************************************************************************)
(* cli/__main__.py: main around process_all                                *)
(***************************************************************************)
EXIT_SUCCESS_ALL == 0
EXIT_PARTIAL_FAILURE == 2
EXIT_FATAL == 1

\* What main finds: config/import.yml (loadable, missing, or rejected by
\* load_config), DISABLE_DB_CONNECT=1, and whether the store can be connected.
CliEnvs ==
    [op : {"main"}, config_file : {"ok", "missing", "invalid"},
     disable_db : BOOLEAN, connect_ok : BOOLEAN]

\* load_config: the ImportConfig, or ConfigError.
load_config(env) ==
    IF env.config_file = "ok" THEN [ok |-> TRUE] ELSE [ok |-> FALSE, err |-> "ConfigError"]

\* Path(cfg.source_directory).exists()
directory_exists(dir) == dir # "missing"

\* render_summary_line(total_files, result), the SUMMARY prefix apart from the
\* content; elapsed_sec is left out (the clock is not modelled) and
\* throughput_rps is "0" exactly when the throughput is 0.
render_summary_line(total_files, res) ==
    [prefix |-> "SUMMARY ",
     content |-> "files=" \o ToString(total_files) \o "/" \o ToString(total_files)
                 \o " success=" \o ToString(res.success_files)
                 \o " failed=" \o ToString(res.failed_files)
                 \o " rows=" \o ToString(res.total_inserted_rows)
                 \o " skipped_sheets=" \o ToString(res.skipped_sheets),
     throughput_rps |-> IF res.throughput_rows_per_sec = 0 THEN "0" ELSE "positive"]

\* Mutant of log_run_summary: no SUMMARY line for a run that found no file.
log_run_summary_unless_empty(lines, res) ==
    LET total_files == res.success_files + res.failed_files
        summary_line == render_summary_line(total_files, res)
    IN  IF total_files = 0 THEN lines
        ELSE Append(lines, [level |-> "SUMMARY", message |-> summary_line.content,
                            throughput_rps |-> summary_line.throughput_rps])

\* total_files, render_summary_line and log_summary(summary_line[8:]): the
\* logger writes the content under the SUMMARY level label.
log_run_summary(lines, res) ==
    LET total_files == res.success_files + res.failed_files
        summary_line == render_summary_line(total_files, res)
    IN  Append(lines, [level |-> "SUMMARY", message |-> summary_line.content,
                       throughput_rps |-> summary_line.throughput_rps])

\* Mutant of exit_code_of: a run with a succeeded file returns the success code.
exit_code_any_success(res) ==
    IF res.success_files > 0 THEN EXIT_SUCCESS_ALL
    ELSE IF res.failed_files > 0 THEN EXIT_PARTIAL_FAILURE
    ELSE EXIT_SUCCESS_ALL

\* The exit code main derives from the ProcessingResult.
exit_code_of(res) ==
    IF res.failed_files > 0 /\ res.success_files > 0 THEN EXIT_PARTIAL_FAILURE
    ELSE IF res.failed_files > 0 THEN EXIT_PARTIAL_FAILURE
    ELSE EXIT_SUCCESS_ALL

CliWorkbookIds == {"ponly", "short"}

InitCLI ==
    /\ config \in {"pc", "cp"}
    /\ cursor = "none"
    /\ directory \in DirectoryStates
    /\ files \in UNION { [1..n -> CliWorkbookIds] : n \in 0..MaxFiles }
    /\ directory # "dir" => files = <<>>
    /\ pc = "idle"
    /\ fi = 1 /\ mi = 1
    /\ faults = 0
    /\ next_key = FirstKey
    /\ trace = <<>>
    /\ error_log = <<>> /\ log_file = <<>> /\ flushed = 0
    /\ parent_pk_lookup = <<>>
    /\ processed_tables = {}
    /\ total_inserted_rows = 0 /\ skipped_sheets = 0 /\ sheet_processes = <<>>
    /\ pending = NoPending
    /\ success_count = 0 /\ failed_count = 0 /\ total_rows = 0
    /\ total_skipped_sheets = 0
    /\ file_stats = <<>> /\ file_results = <<>>
    /\ result = [returned |-> FALSE]
    /\ NrIdle /\ BiIdle /\ PfIdle /\ NsIdle /\ ElIdle
    /\ main_calls = <<>>
    /\ cli_pc = "startup"
    /\ cli_env \in CliEnvs
    /\ summary_lines = <<>>
    /\ exit_code = -1

\* main up to the call of process_all: the configuration is loaded, the
\* directory is looked for, and the store is connected unless disabled; a
\* failed connection falls back to mock mode.
CliStartup ==
    /\ cli_pc = "startup"
    /\ IF ~load_config(cli_env).ok \/ ~directory_exists(directory)
       THEN /\ exit_code' = EXIT_FATAL
            /\ cli_pc' = "exited"
            /\ UNCHANGED <<cursor, pc, main_calls>>
       ELSE /\ cursor' = IF ~cli_env.disable_db /\ cli_env.connect_ok
                         THEN "live" ELSE "none"
            /\ main_calls' = Append(main_calls, cursor')
            /\ pc' = "start"
            /\ cli_pc' = "running"
            /\ UNCHANGED exit_code
    /\ UNCHANGED <<config, directory, files, runVars, localVars, storeVars, faults,
                   trace, error_log, log_file, flushed, result, nrVars,
                   bi_call, bi_ret, pf_call, pf_ret, ns_call, ns_ret,
                   cli_env, summary_lines, elVars>>

\* The exit of the connection context raises (commit and rollback both fail):
\* main catches it and runs process_all again without a store handle.
CliFallback ==
    /\ cli_pc = "running"
    /\ pc \in {"done", "raised"}
    /\ cursor = "live"
    /\ Outcome(FALSE)
    /\ cursor' = "none"
    /\ main_calls' = Append(main_calls, "none")
    /\ pc' = "start"
    /\ fi' = 1 /\ mi' = 1
    /\ error_log' = <<>>
    /\ parent_pk_lookup' = <<>> /\ processed_tables' = {}
    /\ total_inserted_rows' = 0 /\ skipped_sheets' = 0 /\ sheet_processes' = <<>>
    /\ pending' = NoPending
    /\ success_count' = 0 /\ failed_count' = 0 /\ total_rows' = 0
    /\ total_skipped_sheets' = 0
    /\ file_stats' = <<>> /\ file_results' = <<>>
    /\ result' = [returned |-> FALSE]
    /\ UNCHANGED <<config, directory, files, next_key, trace, log_file, flushed,
                   nrVars, elVars, bi_call, bi_ret, pf_call, pf_ret, ns_call, ns_ret,
                   cli_pc, cli_env, summary_lines, exit_code>>

\* main after process_all: EXIT_FATAL on ProcessingError, else the SUMMARY line
\* and the exit code of the result.
CliReturn ==
    /\ cli_pc = "running"
    /\ pc \in {"done", "raised"}
    /\ IF pc = "raised"
       THEN /\ exit_code' = EXIT_FATAL
            /\ UNCHANGED summary_lines
       ELSE /\ summary_lines' = log_run_summary(summary_lines, result)
            /\ exit_code' = exit_code_of(result)
    /\ cli_pc' = "exited"
    /\ UNCHANGED <<mainVars, nrVars, bi_call, bi_ret, pf_call, pf_ret, ns_call, ns_ret,
                   cli_env, main_calls, elVars>>

NextCLI ==
    \/ CliStartup
    \/ Start
    \/ BeginFile
    \/ ReadWorkbook
    \/ SkipSheet
    \/ PrepareSheet
    \/ InsertSheet
    \/ CommitFile
    \/ FlushAndReturn
    \/ CliFallback
    \/ CliReturn

SpecCLI == InitCLI /\ [][NextCLI]_vars

\* main is one sequential call: once it can take a step of its own (the
\* startup, the return after process_all), it takes it.
SpecCLIFair == SpecCLI /\ WF_vars(CliStartup) /\ WF_vars(CliReturn)

(***************************************************************************)
(* logging/error_log.py: ErrorLogBuffer on its own                         *)
(***************************************************************************)
MaxAppends == 3
MaxFlushes == 2
MaxClock == 1

\* ErrorRecord.to_json_line: json.dumps(asdict(self)), one line holding the
\* fields in dataclass order.
to_json_line(r) ==
    << <<"timestamp", r.timestamp>>, <<"file", r.file>>, <<"sheet", r.sheet>>,
       <<"row", r.row>>, <<"error_type", r.error_type>>,
       <<"db_message", r.db_message>> >>

\* LOGS_DIR / f"errors-{stamp}.log"
log_path(stamp) == "logs/errors-" \o ToString(stamp) \o ".log"

\* Mutant of file_path_of: the path is computed at every access.
file_path_uncached(file_path, now) == log_path(now)

\* ErrorLogBuffer.file_path: decided at the first access, then kept.
file_path_of(file_path, now) ==
    IF file_path = "None" THEN log_path(now) ELSE file_path

\* The lines of a file, <<>> when the file does not exist.
lines_of(disk, fp) == IF fp \in DOMAIN disk THEN disk[fp] ELSE <<>>

\* fp.open("a"): the lines are added at the end of the file.
append_lines(disk, fp, lines) ==
    [q \in DOMAIN disk \cup {fp} |->
        IF q = fp THEN lines_of(disk, fp) \o lines ELSE disk[q]]

ElRecordSet ==
    { [timestamp |-> 0, file |-> "f.xlsx", sheet |-> "S", row |-> n,
       error_type |-> "CONSTRAINT_VIOLATION", db_message |-> "dup"] : n \in 1..2 }

\* ./logs before the buffer is made: empty, or holding a log of this second.
ElDisks ==
    { <<>>,
      [q \in {log_path(0)} |-> <<to_json_line(CHOOSE r \in ElRecordSet : r.row = 1)>>] }

InitEL ==
    /\ MainIdle /\ NrIdle /\ BiIdle /\ PfIdle /\ NsIdle /\ CliIdle
    /\ el_records = <<>> /\ el_file_path = "None" /\ el_now = 0
    /\ el_disk \in ElDisks
    /\ el_appended = <<>> /\ el_flushes = <<>>

\* The clock passes a second.
ElTick ==
    /\ pc = "idle"
    /\ el_now < MaxClock
    /\ el_now' = el_now + 1
    /\ UNCHANGED <<mainVars, nrVars, hVars, el_records, el_file_path, el_disk,
                   el_appended, el_flushes>>

\* ErrorLogBuffer.append(record)
ElAppend ==
    /\ pc = "idle"
    /\ Len(el_appended) < MaxAppends
    /\ \E record \in ElRecordSet :
       /\ el_records' = Append(el_records, record)
       /\ el_appended' = Append(el_appended, record)
    /\ UNCHANGED <<mainVars, nrVars, hVars, el_file_path, el_now, el_disk, el_flushes>>

\* ErrorLogBuffer.file_path read by the caller.
ElFilePath ==
    /\ pc = "idle"
    /\ el_file_path = "None"
    /\ el_file_path' = file_path_of(el_file_path, el_now)
    /\ UNCHANGED <<mainVars, nrVars, hVars, el_records, el_now, el_disk,
                   el_appended, el_flushes>>

\* ErrorLogBuffer.flush(): with no record only the path is decided; else the
\* records are written to the file in append mode and the buffer is cleared.
\* A flush that raises (open or write fails) has written the first k lines and
\* keeps the buffer.
ElFlush ==
    /\ pc = "idle"
    /\ Len(el_flushes) < MaxFlushes
    /\ LET fp == file_path_of(el_file_path, el_now)
           lines == [j \in 1..Len(el_records) |-> to_json_line(el_records[j])]
       IN  /\ el_file_path' = fp
           /\ IF el_records = <<>>
              THEN /\ el_flushes' = Append(el_flushes,
                          [path |-> fp, ok |-> TRUE, buffered |-> <<>>,
                           before |-> lines_of(el_disk, fp),
                           after |-> lines_of(el_disk, fp), left |-> <<>>])
                   /\ UNCHANGED <<el_disk, el_records>>
              ELSE \/ /\ el_disk' = append_lines(el_disk, fp, lines)
                      /\ el_records' = <<>>
                      /\ el_flushes' = Append(el_flushes,
                             [path |-> fp, ok |-> TRUE, buffered |-> el_records,
                              before |-> lines_of(el_disk, fp),
                              after |-> lines_of(el_disk', fp), left |-> <<>>])
                   \/ \E k \in 0..(Len(el_records) - 1) :
                      /\ el_disk' = IF k = 0 /\ fp \notin DOMAIN el_disk THEN el_disk
                                    ELSE append_lines(el_disk, fp, SubSeq(lines, 1, k))
                      /\ el_flushes' = Append(el_flushes,
                             [path |-> fp, ok |-> FALSE, buffered |-> el_records,
                              before |-> lines_of(el_disk, fp),
                              after |-> lines_of(el_disk', fp), left |-> el_records])
                      /\ UNCHANGED el_records
    /\ UNCHANGED <<mainVars, nrVars, hVars, el_now, el_appended>>

NextEL == ElTick \/ ElAppend \/ ElFilePath \/ ElFlush

SpecEL == InitEL /\ [][NextEL]_vars

(***************************************************************************)
(* orchestrator.py: runs over workbooks whose child sheet declares an FK    *)
(* propagation column without a configured pair                            *)
(***************************************************************************)
FillConfigIds == {"nomap", "pc"}
FillWorkbookIds == {"owned", "ponly"}

InitFill ==
    /\ config \in FillConfigIds
    /\ cursor \in {"none", "live"}
    /\ directory = "dir"
    /\ files \in UNION { [1..n -> FillWorkbookIds] : n \in 0..MaxFiles }
    /\ pc = "start"
    /\ fi = 1 /\ mi = 1
    /\ faults = 0
    /\ next_key = FirstKey
    /\ trace = <<>>
    /\ error_log = <<>> /\ log_file = <<>> /\ flushed = 0
    /\ parent_pk_lookup = <<>>
    /\ processed_tables = {}
    /\ total_inserted_rows = 0 /\ skipped_sheets = 0 /\ sheet_processes = <<>>
    /\ pending = NoPending
    /\ success_count = 0 /\ failed_count = 0 /\ total_rows = 0
    /\ total_skipped_sheets = 0
    /\ file_stats = <<>> /\ file_results = <<>>
    /\ result = [returned |-> FALSE]
    /\ NrIdle /\ BiIdle /\ PfIdle /\ NsIdle /\ CliIdle /\ ElIdle

NextFill ==
    \/ Start
    \/ BeginFile
    \/ ReadWorkbook
    \/ SkipSheet
    \/ PrepareSheet
    \/ InsertSheet
    \/ CommitFile
    \/ FlushAndReturn

SpecFill == InitFill /\ [][NextFill]_vars

(***************************************************************************)
(* Properties                                                              *)
(***************************************************************************)
\* Every record appended to the run's error log, in append order.
Appended == log_file \o error_log
RecordsOf(f) == SelectSeq(Appended, LAMBDA r : r.file = f)
\* The store and reader calls made for file f, in call order.
EventsOf(f) == SelectSeq(trace, LAMBDA e : e.ev # "FLUSH" /\ e.file = f)
Finished(f) == f <= Len(file_results)
IsSheetFailure(e) ==
    \/ e.ev = "NORMALIZE" /\ e.outcome # "ok"
    \/ e.ev = "INSERT_FAILED"
IsSheetCall(e) == e.ev \in {"NORMALIZE", "INSERT", "INSERT_FAILED"}
SheetRows(sheets) == SumSeq([j \in 1..Len(sheets) |-> sheets[j].inserted_rows])
IsPrefix(a, b) == Len(a) <= Len(b) /\ \A j \in 1..Len(a) : a[j] = b[j]

\* C1: per-file atomicity.  With a store handle, a COMMIT is issued for a file
\* only if no sheet of the file failed; a failed sheet is followed at once by a
\* ROLLBACK, no COMMIT follows it, and the file is failed; a file is success only
\* if its COMMIT succeeded.
C1_PerFileAtomicity ==
    cursor = "live" =>
    \A f \in 1..Len(files) :
        LET evs == EventsOf(f)
        IN  /\ \A j \in 1..Len(evs) :
                 evs[j].ev = "COMMIT" => \A h \in 1..Len(evs) : ~IsSheetFailure(evs[h])
            /\ \A j \in 1..Len(evs) :
                 IsSheetFailure(evs[j]) =>
                    /\ j < Len(evs) /\ evs[j + 1].ev = "ROLLBACK"
                    /\ \A h \in (j + 1)..Len(evs) : evs[h].ev # "COMMIT"
                    /\ Finished(f) /\ file_results[f].status = "failed"
            /\ (Finished(f) /\ file_results[f].status = "success") =>
                 \E j \in 1..Len(evs) : evs[j].ev = "COMMIT" /\ evs[j].ok

\* A file whose first sheet was inserted and whose second sheet then failed has
\* been rolled back, next to a file that was committed.
C1_Witness ==
    /\ cursor = "live"
    /\ \E f \in 1..Len(file_results) :
          \E j, h \in 1..Len(EventsOf(f)) :
             /\ j < h
             /\ EventsOf(f)[j].ev = "INSERT"
             /\ IsSheetFailure(EventsOf(f)[h])
    /\ \E g \in 1..Len(file_results) : file_results[g].status = "success"

\* C2: abort on the first sheet failure.  After a failed sheet of a file no
\* sheet of that file is normalized or inserted.
C2_AbortOnFirstSheetFailure ==
    \A f \in 1..Len(files) :
        LET evs == EventsOf(f)
        IN  \A j, h \in 1..Len(evs) :
               (j < h /\ IsSheetFailure(evs[j])) => ~IsSheetCall(evs[h])

\* A finished file whose failed sheet is followed, in configuration order, by a
\* sheet that the workbook holds.
C2_Witness ==
    \E f \in 1..Len(file_results) :
        LET names == [j \in 1..Len(Cfg(config).sheet_mappings) |->
                         Cfg(config).sheet_mappings[j].sheet_name]
            book == {Wb(files[f])[j].name : j \in 1..Len(Wb(files[f]))}
        IN  \E j \in 1..Len(EventsOf(f)) :
               /\ IsSheetFailure(EventsOf(f)[j])
               /\ \E a, b \in 1..Len(names) :
                     a < b /\ names[a] = EventsOf(f)[j].sheet /\ names[b] \in book

\* C3: failure isolation between files.  On return every enumerated file has
\* been attempted exactly once, in enumeration order, the counts add up to the
\* number of files, and file_stats holds one entry per file with its status.
C3_FailureIsolation ==
    result.returned =>
        LET first == IF cursor = "live" THEN "BEGIN" ELSE "READ"
            starts == SelectSeq(trace, LAMBDA e : e.ev = first)
            tagged == SelectSeq(trace, LAMBDA e : e.ev # "FLUSH")
        IN  /\ result.success_files + result.failed_files = Len(files)
            /\ Len(result.file_stats) = Len(files)
            /\ \A f \in 1..Len(files) :
                  /\ result.file_stats[f].file_name = f
                  /\ result.file_stats[f].status = file_results[f].status
                  /\ result.file_stats[f].status \in {"success", "failed"}
            /\ result.success_files =
                  Cardinality({f \in 1..Len(files) : file_results[f].status = "success"})
            /\ Len(starts) = Len(files)
            /\ \A f \in 1..Len(files) : starts[f].file = f
            /\ \A j, h \in 1..Len(tagged) : j < h => tagged[j].file <= tagged[h].file

\* A returned run of two files whose first file failed and whose second succeeded.
C3_Witness ==
    /\ result.returned
    /\ Len(files) = 2
    /\ file_results[1].status = "failed"
    /\ file_results[2].status = "success"

\* C4: rows are counted only from succeeded files.  On return the run total is
\* the sum of the rows of the sheets of the files with status success.
C4_RowsOnlyFromSucceededFiles ==
    result.returned =>
        /\ result.total_inserted_rows =
              SumSeq([f \in 1..Len(file_results) |->
                         IF file_results[f].status = "success"
                         THEN SheetRows(file_results[f].sheets) ELSE 0])
        /\ result.total_inserted_rows =
              SumSeq([f \in 1..Len(result.file_stats) |->
                         IF result.file_stats[f].status = "success"
                         THEN result.file_stats[f].inserted_rows ELSE 0])

\* A returned run with a failed file that had inserted rows before it failed and
\* a succeeded file with rows.
C4_Witness ==
    /\ result.returned
    /\ \E f \in 1..Len(file_results) :
          file_results[f].status = "failed" /\ SheetRows(file_results[f].sheets) > 0
    /\ \E g \in 1..Len(file_results) :
          file_results[g].status = "success" /\ file_results[g].total_rows > 0

ExpectedErrorType(e) ==
    IF e.ev = "INSERT_FAILED" THEN "DATABASE_INSERT_ERROR"
    ELSE IF e.outcome \in {"SheetHeaderError", "MissingColumnsError"}
    THEN "SHEET_VALIDATION_ERROR"
    ELSE "UNEXPECTED_ERROR"

\* C5: one error record per sheet failure, correctly classified.  A file that
\* failed on a sheet has exactly one record, naming the file and the sheet with
\* row -1 and the error type of the kind of failure; a succeeded file has none.
C5_OneRecordPerSheetFailure ==
    \A f \in 1..Len(file_results) :
        LET evs == EventsOf(f)
        IN  /\ file_results[f].status = "success" => RecordsOf(f) = <<>>
            /\ \A j \in 1..Len(evs) :
                  IsSheetFailure(evs[j]) =>
                     RecordsOf(f) = << [file |-> f, sheet |-> evs[j].sheet, row |-> -1,
                                        error_type |-> ExpectedErrorType(evs[j])] >>

\* A run in which one file failed on a header or missing-column error and
\* another on a batch-insert error.
C5_Witness ==
    \E f, g \in 1..Len(file_results) :
        /\ \E j \in 1..Len(EventsOf(f)) :
              EventsOf(f)[j].ev = "NORMALIZE"
              /\ EventsOf(f)[j].outcome \in {"SheetHeaderError", "MissingColumnsError"}
        /\ \E j \in 1..Len(EventsOf(g)) : EventsOf(g)[j].ev = "INSERT_FAILED"

\* The configured sheets that workbook f holds, in configuration order.
ConfigOrderPresent(f) ==
    LET names == [j \in 1..Len(Cfg(config).sheet_mappings) |->
                     Cfg(config).sheet_mappings[j].sheet_name]
    IN  SelectSeq(names, LAMBDA n : \E j \in 1..Len(Wb(files[f])) : Wb(files[f])[j].name = n)
NormalizedSheets(f) ==
    LET evs == SelectSeq(EventsOf(f), LAMBDA e : e.ev = "NORMALIZE")
    IN  [j \in 1..Len(evs) |-> evs[j].sheet]

\* C6: sheets are processed in configuration order.  The sheets normalized for
\* a file are, in order, the configured sheets the workbook holds (all of them
\* when no sheet failed, up to the failed one otherwise), and every insert comes
\* right after the normalization of its own sheet, before any other sheet.
C6_ConfigurationOrder ==
    /\ \A f \in 1..Len(files) :
          /\ IsPrefix(NormalizedSheets(f), ConfigOrderPresent(f))
          /\ (Finished(f) /\ file_results[f].status = "success") =>
                NormalizedSheets(f) = ConfigOrderPresent(f)
    /\ \A j \in 1..Len(trace) :
          trace[j].ev \in {"INSERT", "INSERT_FAILED"} =>
             /\ j > 1
             /\ trace[j - 1].ev = "NORMALIZE"
             /\ trace[j - 1].outcome = "ok"
             /\ trace[j - 1].file = trace[j].file
             /\ trace[j - 1].sheet = trace[j].sheet

\* A succeeded file whose workbook lists the child sheet before the parent sheet
\* while the configuration lists the parent first, both inserted.
C6_Witness ==
    /\ config = "pc" /\ cursor = "live"
    /\ \E f \in 1..Len(file_results) :
          /\ files[f] = "both"
          /\ file_results[f].status = "success"
          /\ NormalizedSheets(f) = <<"Parents", "Children">>
          /\ Cardinality({j \in 1..Len(EventsOf(f)) : EventsOf(f)[j].ev = "INSERT"}) = 2

\* The configured parent->child pairs whose two references both hold a dot.
ConfiguredPairs(fp) ==
    { [parent_table |-> TableOf(fp.entries[j].parent),
       parent_identifier |-> JoinDot(ColumnOf(fp.entries[j].parent)),
       child_table |-> TableOf(fp.entries[j].child),
       child_fk |-> JoinDot(ColumnOf(fp.entries[j].child))] :
      j \in { h \in 1..Len(fp.entries) :
                HasDot(fp.entries[h].parent) /\ HasDot(fp.entries[h].child) } }
IsInsertCall(e) == e.ev \in {"INSERT", "INSERT_FAILED"}
IsCapture(e) == e.ev = "INSERT" /\ e.returning /\ e.returned # <<>>
\* The rows of the sheet an insert call was made for, as normalize_sheet gave them.
NormalizedRowsOf(e) ==
    LET m == CHOOSE x \in Range(sheet_mappings) : x.sheet_name = e.sheet
        df == (CHOOSE sh \in Range(Wb(files[e.file])) : sh.name = e.sheet).df
    IN  normalize_sheet(df, expected_columns(m), m.default_values, m.null_sentinels).rows

\* C7: FK propagation by parent identifier.  For every insert call of a child
\* table made after the latest key capture of its parent table, every child row
\* whose FK cell in the sheet is the identifier value of a captured parent row
\* ("Alice") is passed to the insert with that cell replaced by the generated
\* key of that parent row (101).
C7_FKPropagationByIdentifier ==
    \A h \in 1..Len(trace) : \A j \in 1..(h - 1) :
    \A pair \in ConfiguredPairs(Cfg(config).fk_propagations) :
        LET e == trace[h]
            p == trace[j]
        IN  ( /\ IsInsertCall(e) /\ e.table = pair.child_table
              /\ pair.child_fk \in Range(e.columns)
              /\ IsCapture(p) /\ p.table = pair.parent_table
              /\ pair.parent_identifier \in Range(TableCols(p.table))
              /\ \A g \in (j + 1)..(h - 1) :
                    ~(IsCapture(trace[g]) /\ trace[g].table = pair.parent_table) )
            => LET sheet_rows == NormalizedRowsOf(e)
                   fk == SeqIndex(e.columns, pair.child_fk)
                   ident == SeqIndex(TableCols(p.table), pair.parent_identifier)
                   key == SeqIndex(TableCols(p.table), "id")
               IN  \A r \in 1..Len(e.rows) : \A q \in 1..Len(p.returned) :
                      sheet_rows[r][pair.child_fk] = p.returned[q][ident]
                         => e.rows[r][fk] = p.returned[q][key]

\* The tables added to processed_tables by the insert calls before call h.
ProcessedBefore(h) == { trace[j].table : j \in { g \in 1..(h - 1) : IsCapture(trace[g]) } }

\* C8: conditional key capture.  With a store handle every batch insert is
\* invoked with returning=true exactly when needs_returning holds for its table
\* and the processed tables of that moment: exactly when some configured pair
\* has the table as parent and a child that is not yet processed.  A table that
\* is the parent of no pair is always inserted with returning=false, and without
\* a store handle no insert is invoked.
C8_ConditionalKeyCapture ==
    /\ processed_tables = ProcessedBefore(Len(trace) + 1)
    /\ pc = "insert" =>
          /\ cursor = "live"
          /\ pending.returning =
                needs_returning(pending.table, Cfg(config).fk_propagations, processed_tables)
    /\ \A h \in 1..Len(trace) :
          IsInsertCall(trace[h]) =>
             /\ cursor = "live"
             /\ trace[h].returning <=>
                   \E pair \in ConfiguredPairs(Cfg(config).fk_propagations) :
                      /\ pair.parent_table = trace[h].table
                      /\ pair.child_table \notin ProcessedBefore(h)
             /\ (\A pair \in ConfiguredPairs(Cfg(config).fk_propagations) :
                    pair.parent_table # trace[h].table) => ~trace[h].returning

\* The parent table was inserted with returning=true and captured its keys, and
\* the child table was inserted after it with returning=false.
C8_Witness ==
    \E j, h \in 1..Len(trace) :
        /\ j < h
        /\ IsCapture(trace[j]) /\ trace[j].table = "parents"
        /\ trace[h].ev = "INSERT" /\ trace[h].table = "children"
        /\ ~trace[h].returning

\* C9: needs_returning(table, config, processed) is true iff some configured
\* pair with a dot in both references has the table as parent table and a child
\* table outside processed, in the dict shape and in the list shape alike; so
\* each child of a parent counts on its own, and once every child of the table
\* is in processed the result is false.
C9_NeedsReturningIff ==
    nr_op # "init" =>
        /\ nr_result <=>
              \E pair \in ConfiguredPairs(nr_fp) :
                 pair.parent_table = nr_table /\ pair.child_table \notin nr_processed
        /\ ({pair.child_table : pair \in {x \in ConfiguredPairs(nr_fp) : x.parent_table = nr_table}}
               \subseteq nr_processed) => ~nr_result

\* A parent with two children, in the list shape, whose first configured child
\* is processed and whose second is not: the answer is still true.
C9_Witness ==
    /\ nr_op = "add"
    /\ nr_fp.shape = "list"
    /\ Len(nr_fp.entries) = 2
    /\ HasDot(nr_fp.entries[1].parent) /\ TableOf(nr_fp.entries[1].parent) = nr_table
    /\ HasDot(nr_fp.entries[1].child) /\ TableOf(nr_fp.entries[1].child) \in nr_processed
    /\ HasDot(nr_fp.entries[2].parent) /\ TableOf(nr_fp.entries[2].parent) = nr_table
    /\ HasDot(nr_fp.entries[2].child) /\ TableOf(nr_fp.entries[2].child) \notin nr_processed
    /\ nr_result

\* C10: transaction begin failure.  A file whose BEGIN failed has that BEGIN as
\* its only store or reader call (no parse, insert, COMMIT or ROLLBACK), exactly
\* one error record, TRANSACTION_BEGIN_ERROR at <FILE_LEVEL> with row -1, is
\* failed with zero rows, and the next call of the run, if any, belongs to the
\* next file or is the flush.
C10_BeginFailure ==
    \A h \in 1..Len(trace) :
        (trace[h].ev = "BEGIN" /\ ~trace[h].ok) =>
            LET f == trace[h].file
            IN  /\ EventsOf(f) = <<trace[h]>>
                /\ RecordsOf(f) = << [file |-> f, sheet |-> "<FILE_LEVEL>", row |-> -1,
                                      error_type |-> "TRANSACTION_BEGIN_ERROR"] >>
                /\ Finished(f)
                /\ file_results[f].status = "failed"
                /\ file_results[f].total_rows = 0
                /\ file_results[f].sheets = <<>>
                /\ file_stats[f].status = "failed" /\ file_stats[f].inserted_rows = 0
                /\ h < Len(trace) =>
                      IF f < Len(files)
                      THEN trace[h + 1].ev \in {"BEGIN"} /\ trace[h + 1].file = f + 1
                      ELSE trace[h + 1].ev = "FLUSH"
                /\ (f < Len(files) /\ pc = "done") => h < Len(trace)

\* BEGIN failed for the first file and the second file was then processed to
\* success.
C10_Witness ==
    /\ Len(file_results) = 2
    /\ \E h \in 1..Len(trace) :
          trace[h].ev = "BEGIN" /\ ~trace[h].ok /\ trace[h].file = 1
    /\ file_results[2].status = "success"
    /\ file_results[2].total_rows > 0

CountEv(f, kind) == Len(SelectSeq(EventsOf(f), LAMBDA e : e.ev = kind))
FileLevelRecord(f, error_type) ==
    [file |-> f, sheet |-> "<FILE_LEVEL>", row |-> -1, error_type |-> error_type]
CountRecords(f, error_type) ==
    Len(SelectSeq(RecordsOf(f), LAMBDA r : r = FileLevelRecord(f, error_type)))
FilesWithStatus(status) ==
    { f \in 1..Len(file_results) : file_results[f].status = status }

\* C11: workbook parse failure.  A file whose workbook read raised is failed
\* with zero rows and zero sheets, no sheet of it is normalized or inserted, with
\* a store handle exactly one ROLLBACK (right after the read) and no COMMIT is
\* issued for it, without one no ROLLBACK, and exactly one PROCESSING_ERROR
\* record at <FILE_LEVEL>, row -1, is appended for it.
C11_ParseFailure ==
    \A h \in 1..Len(trace) :
        (trace[h].ev = "READ" /\ ~trace[h].ok) =>
            LET f == trace[h].file
            IN  /\ Finished(f)
                /\ file_results[f].status = "failed"
                /\ file_results[f].total_rows = 0
                /\ file_results[f].sheets = <<>>
                /\ file_stats[f].status = "failed" /\ file_stats[f].inserted_rows = 0
                /\ \A j \in 1..Len(EventsOf(f)) : ~IsSheetCall(EventsOf(f)[j])
                /\ CountEv(f, "COMMIT") = 0
                /\ CountEv(f, "ROLLBACK") = (IF cursor = "live" THEN 1 ELSE 0)
                /\ cursor = "live" =>
                      /\ h < Len(trace)
                      /\ trace[h + 1].ev = "ROLLBACK" /\ trace[h + 1].file = f
                /\ CountRecords(f, "PROCESSING_ERROR") = 1
                /\ \A j \in 1..Len(RecordsOf(f)) :
                      RecordsOf(f)[j].error_type \in
                         {"PROCESSING_ERROR", "TRANSACTION_ROLLBACK_ERROR"}

\* With a store handle, the read of the first file raised, it was rolled back,
\* and the second file was read.
C11_Witness ==
    /\ cursor = "live"
    /\ \E h \in 1..Len(trace) :
          /\ trace[h].ev = "READ" /\ ~trace[h].ok /\ trace[h].file = 1
          /\ trace[h + 1].ev = "ROLLBACK" /\ trace[h + 1].ok
    /\ \E h \in 1..Len(trace) :
          trace[h].ev = "READ" /\ trace[h].ok /\ trace[h].file = 2

\* C12: commit failure is a file failure.  A file whose COMMIT failed had no
\* failed sheet, a ROLLBACK is issued right after the failed COMMIT, exactly one
\* record, TRANSACTION_COMMIT_ERROR at <FILE_LEVEL>, is appended for it, the file
\* is failed, and on return it is counted in failed_files, not in success_files,
\* and its rows are not in total_inserted_rows.
C12_CommitFailure ==
    \A h \in 1..Len(trace) :
        (trace[h].ev = "COMMIT" /\ ~trace[h].ok) =>
            LET f == trace[h].file
            IN  /\ \A j \in 1..Len(EventsOf(f)) : ~IsSheetFailure(EventsOf(f)[j])
                /\ h < Len(trace)
                /\ trace[h + 1].ev = "ROLLBACK" /\ trace[h + 1].file = f
                /\ RecordsOf(f) = << FileLevelRecord(f, "TRANSACTION_COMMIT_ERROR") >>
                /\ Finished(f)
                /\ file_results[f].status = "failed"
                /\ \A j \in 1..Len(file_results[f].sheets) :
                      file_results[f].sheets[j].error = "None"
                /\ file_stats[f].status = "failed"
                /\ result.returned =>
                      /\ result.failed_files = Cardinality(FilesWithStatus("failed"))
                      /\ result.success_files = Cardinality(FilesWithStatus("success"))
                      /\ f \in FilesWithStatus("failed")
                      /\ result.total_inserted_rows =
                            SumSeq([g \in 1..Len(file_results) |->
                                       IF g # f /\ file_results[g].status = "success"
                                       THEN file_results[g].total_rows ELSE 0])

\* A returned run of two files with rows: the COMMIT of one failed, the other
\* was committed.
C12_Witness ==
    /\ result.returned
    /\ \E h \in 1..Len(trace) :
          /\ trace[h].ev = "COMMIT" /\ ~trace[h].ok
          /\ file_results[trace[h].file].total_rows > 0
    /\ result.success_files = 1
    /\ result.total_inserted_rows > 0

\* C13: rollback failures are logged and never mask the original error.  For
\* every ROLLBACK that failed, a TRANSACTION_ROLLBACK_ERROR record at
\* <FILE_LEVEL> is appended for its file, a record of the error that triggered
\* the rollback is appended too, and the file is failed.
C13_RollbackFailureLogged ==
    \A h \in 1..Len(trace) :
        (trace[h].ev = "ROLLBACK" /\ ~trace[h].ok) =>
            LET f == trace[h].file
            IN  /\ Finished(f)
                /\ file_results[f].status = "failed"
                /\ CountRecords(f, "TRANSACTION_ROLLBACK_ERROR") >= 1
                /\ \E j \in 1..Len(RecordsOf(f)) :
                      RecordsOf(f)[j].error_type # "TRANSACTION_ROLLBACK_ERROR"

IsTxEnd(e) == e.ev \in {"COMMIT", "ROLLBACK"}

\* C14: transaction discipline.  With a store handle there is at most one BEGIN
\* per file; every successful BEGIN is followed by a COMMIT or a ROLLBACK of its
\* file before the next BEGIN and before the file is finished; a COMMIT or
\* ROLLBACK is issued only for a file whose BEGIN succeeded; and no COMMIT
\* follows a ROLLBACK of the same file.
C14_TransactionDiscipline ==
    /\ \A f \in 1..Len(files) : CountEv(f, "BEGIN") <= 1
    /\ \A h \in 1..Len(trace) :
          (trace[h].ev = "BEGIN" /\ trace[h].ok) =>
             /\ \A g \in (h + 1)..Len(trace) :
                   trace[g].ev = "BEGIN" =>
                      \E j \in (h + 1)..(g - 1) :
                         IsTxEnd(trace[j]) /\ trace[j].file = trace[h].file
             /\ Finished(trace[h].file) =>
                   \E j \in (h + 1)..Len(trace) :
                      IsTxEnd(trace[j]) /\ trace[j].file = trace[h].file
    /\ \A g \in 1..Len(trace) :
          (trace[g].ev # "FLUSH" /\ IsTxEnd(trace[g])) =>
             \E h \in 1..(g - 1) :
                trace[h].ev = "BEGIN" /\ trace[h].ok /\ trace[h].file = trace[g].file
    /\ \A g, j \in 1..Len(trace) :
          (g < j /\ trace[g].ev = "ROLLBACK" /\ trace[j].ev = "COMMIT")
             => trace[g].file # trace[j].file

\* Two files: the first was begun and rolled back, the second was begun after
\* that and committed.
C14_Witness ==
    \E a, b, c, d \in 1..Len(trace) :
        /\ a < b /\ b < c /\ c < d
        /\ trace[a].ev = "BEGIN" /\ trace[a].ok /\ trace[a].file = 1
        /\ trace[b].ev = "ROLLBACK" /\ trace[b].file = 1
        /\ trace[c].ev = "BEGIN" /\ trace[c].ok /\ trace[c].file = 2
        /\ trace[d].ev = "COMMIT" /\ trace[d].ok /\ trace[d].file = 2

AbsentCount(f) == Len(Cfg(config).sheet_mappings) - Len(ConfigOrderPresent(f))
\* The number of configured sheets before position n that workbook f does not hold.
AbsentBefore(f, n) ==
    Cardinality({ j \in 1..(n - 1) :
        \A h \in 1..Len(Wb(files[f])) :
           Wb(files[f])[h].name # Cfg(config).sheet_mappings[j].sheet_name })
ConfigPosition(name) ==
    CHOOSE j \in 1..Len(Cfg(config).sheet_mappings) :
       Cfg(config).sheet_mappings[j].sheet_name = name
IsFileFailure(e) ==
    \/ IsSheetFailure(e)
    \/ e.ev \in {"BEGIN", "READ", "COMMIT"} /\ ~e.ok

\* C16 as stated: on return every file's skipped_sheets is the number of
\* configured sheets absent from its workbook, and the run's skipped_sheets is
\* the sum of these numbers over all enumerated files.
C16_AsStated ==
    result.returned =>
        /\ \A f \in 1..Len(file_results) : file_results[f].skipped_sheets = AbsentCount(f)
        /\ result.skipped_sheets = SumSeq([f \in 1..Len(files) |-> AbsentCount(f)])

\* C16 amended: a file that reached the end of its sheet loop (succeeded, or
\* failed at COMMIT) counts every configured sheet absent from its workbook; a
\* file that failed on a sheet counts only the absent sheets configured before
\* that sheet; a file whose BEGIN or read failed counts none.  An absent sheet
\* alone gives no failed status and no error record: a failed file has a failed
\* call, and the records of a file are at most as many as its failed calls and
\* failed rollbacks.  On return the run's skipped_sheets is the sum of the
\* files' skipped_sheets.
C16_SkippedSheets ==
    /\ \A f \in 1..Len(file_results) :
          LET evs == EventsOf(f)
              failed == { j \in 1..Len(evs) : IsFileFailure(evs[j]) }
          IN  /\ file_results[f].status = "failed" <=> failed # {}
              /\ failed = {} => RecordsOf(f) = <<>>
              /\ file_results[f].skipped_sheets =
                    IF \E j \in failed : evs[j].ev \in {"BEGIN", "READ"} THEN 0
                    ELSE IF \E j \in failed : IsSheetFailure(evs[j])
                    THEN AbsentBefore(f, ConfigPosition(
                            evs[CHOOSE j \in failed : IsSheetFailure(evs[j])].sheet))
                    ELSE AbsentCount(f)
              /\ file_results[f].skipped_sheets <= AbsentCount(f)
    /\ result.returned =>
          result.skipped_sheets =
             SumSeq([f \in 1..Len(file_results) |-> file_results[f].skipped_sheets])

\* A returned run with a succeeded file that lacks a configured sheet and a
\* failed file that lacks one too but counted none.
C16_Witness ==
    /\ result.returned
    /\ \E f, g \in 1..Len(file_results) :
          /\ file_results[f].status = "success"
          /\ AbsentCount(f) >= 1
          /\ file_results[f].skipped_sheets = AbsentCount(f)
          /\ file_results[g].status = "failed"
          /\ AbsentCount(g) >= 1
          /\ file_results[g].skipped_sheets = 0
    /\ result.skipped_sheets >= 1

CountFlush == Len(SelectSeq(trace, LAMBDA e : e.ev = "FLUSH"))

\* C17 as stated: in every run that returned a result the error log was flushed
\* exactly once.
C17_AsStated ==
    result.returned => (flushed = 1 /\ CountFlush = 1)

\* C17 amended: the error log is flushed at most once per run, and only as the
\* last call of the run, after every enumerated file has its terminal status; a
\* run that returned a result for at least one file flushed exactly once, and a
\* run that found no file returned without flushing.
C17_FlushedOnce ==
    /\ flushed = CountFlush
    /\ flushed <= 1
    /\ \A h \in 1..Len(trace) :
          trace[h].ev = "FLUSH" =>
             /\ h = Len(trace)
             /\ Len(file_results) = Len(files)
             /\ \A f \in 1..Len(files) : file_results[f].status \in {"success", "failed"}
    /\ result.returned => flushed = (IF files = <<>> THEN 0 ELSE 1)
    /\ pc = "raised" => flushed = 0

\* A returned run of two files, flushed once after the second file.
C17_Witness ==
    /\ result.returned
    /\ Len(files) = 2 /\ Len(file_results) = 2
    /\ flushed = 1
    /\ trace[Len(trace)].ev = "FLUSH"

\* C18: a failing flush is swallowed.  Whether the flush raised or not,
\* process_all has returned after it, and the returned success_files,
\* failed_files, total_inserted_rows and skipped_sheets are the counters of the
\* file loop, fixed by the files' results alone.
C18_FlushFailureSwallowed ==
    \A h \in 1..Len(trace) :
        trace[h].ev = "FLUSH" =>
            /\ pc = "done"
            /\ result.returned
            /\ result.success_files = Cardinality(FilesWithStatus("success"))
            /\ result.failed_files = Cardinality(FilesWithStatus("failed"))
            /\ result.total_inserted_rows =
                  SumSeq([f \in 1..Len(file_results) |->
                             IF file_results[f].status = "success"
                             THEN file_results[f].total_rows ELSE 0])
            /\ result.skipped_sheets =
                  SumSeq([f \in 1..Len(file_results) |-> file_results[f].skipped_sheets])
            /\ result.success_files = success_count
            /\ result.failed_files = failed_count
            /\ result.total_inserted_rows = total_rows
            /\ result.skipped_sheets = total_skipped_sheets

\* The flush raised with records waiting in the buffer, and the run returned
\* with one succeeded file, one failed file and rows.
C18_Witness ==
    /\ trace # <<>>
    /\ trace[Len(trace)].ev = "FLUSH" /\ ~trace[Len(trace)].ok
    /\ error_log # <<>>
    /\ result.returned
    /\ result.success_files = 1 /\ result.failed_files = 1
    /\ result.total_inserted_rows > 0

\* C19: zero-file run.  With a valid configuration and a readable directory
\* that holds no workbook, process_all returns (does not raise) a result with
\* all four counters 0, throughput exactly 0 and empty file_stats, and no
\* transaction command, read, insert or flush is issued and no record appended.
C19_ZeroFileRun ==
    ( /\ files = <<>> /\ directory = "dir"
      /\ \A j \in 1..Len(Cfg(config).sheet_mappings) :
            Cfg(config).sheet_mappings[j].data.isdict
      /\ pc # "start" )
    => /\ pc = "done"
       /\ result = [returned |-> TRUE, success_files |-> 0, failed_files |-> 0,
                    total_inserted_rows |-> 0, skipped_sheets |-> 0,
                    throughput_rows_per_sec |-> 0, file_stats |-> <<>>]
       /\ trace = <<>>
       /\ Appended = <<>>
       /\ file_results = <<>>

\* A zero-file run with a store handle has returned.
C19_Witness ==
    /\ files = <<>> /\ directory = "dir" /\ cursor = "live" /\ config = "cp"
    /\ pc = "done"
    /\ result.returned

\* C20: fatal errors abort before any file is touched.  If a sheet mapping
\* entry is not a key/value record, or the source directory is missing, is not a
\* directory or cannot be listed, process_all raises and returns no result, and
\* no BEGIN, read, insert or flush has been issued and no error record appended.
C20_FatalErrors ==
    ( /\ \/ \E j \in 1..Len(Cfg(config).sheet_mappings) :
               ~Cfg(config).sheet_mappings[j].data.isdict
         \/ directory # "dir"
      /\ pc # "start" )
    => /\ pc = "raised"
       /\ ~result.returned
       /\ trace = <<>>
       /\ Appended = <<>>
       /\ file_results = <<>>
       /\ flushed = 0

\* A run with a valid configuration and a store handle whose source directory
\* is missing has raised.
C20_Witness ==
    /\ pc = "raised"
    /\ directory = "missing"
    /\ config = "pc" /\ cursor = "live"

\* C21: an unresolved FK reference is a hard stop for the file.  With a store
\* handle, no insert call is made for the child table of a configured pair,
\* with the pair's FK column among its columns, unless a key lookup of the
\* parent table was captured earlier in the same file: a child sheet whose
\* parent keys cannot be resolved is never handed to the store.
C21_UnresolvedFKHardStop ==
    \A h \in 1..Len(trace) :
    \A pair \in ConfiguredPairs(Cfg(config).fk_propagations) :
        LET e == trace[h]
        IN  ( /\ IsInsertCall(e) /\ e.table = pair.child_table
              /\ pair.child_fk \in Range(e.columns)
              /\ e.rows # <<>> )
            => \E j \in 1..(h - 1) :
                  /\ IsCapture(trace[j])
                  /\ trace[j].file = e.file
                  /\ trace[j].table = pair.parent_table

\* The batch_insert call has been made.
BiDone == bi_call # NoCall /\ bi_ret # NoCall
BiPrims(prim) == SelectSeq(bi_ret.out.calls, LAMBDA x : x.prim = prim)

\* C22 as stated: batch_insert called with zero rows returns inserted_rows = 0
\* and invokes neither execute_values, nor fetchall, nor the timing callback,
\* whatever the table, columns, returning flag and blob columns.
C22_AsStated ==
    (BiDone /\ bi_call.rows = <<>>) =>
        /\ bi_ret.out.op = "returned"
        /\ bi_ret.out.inserted_rows = 0
        /\ bi_ret.out.calls = <<>>

\* C22: an empty batch does no work.  With the driver available, batch_insert
\* called with zero rows returns inserted_rows = 0 (returned_values [] with
\* returning, None without) and invokes neither execute_values, nor fetchall,
\* nor the timing callback, whatever the table, columns, returning flag and blob
\* columns; without the driver it raises BatchInsertError, also invoking nothing.
C22_EmptyBatch ==
    (BiDone /\ bi_call.rows = <<>>) =>
        /\ bi_ret.out.calls = <<>>
        /\ bi_call.driver =>
              /\ bi_ret.out.op = "returned"
              /\ bi_ret.out.inserted_rows = 0
              /\ bi_ret.out.returned_values =
                    IF bi_call.returning THEN [k |-> "list", v |-> <<>>] ELSE NoneV
        /\ ~bi_call.driver =>
              /\ bi_ret.out.op = "raised"
              /\ bi_ret.out.exc = "BatchInsertError"

\* An empty batch with returning, a callback and blob columns has returned.
C22_Witness ==
    /\ BiDone /\ bi_call.driver /\ bi_call.rows = <<>>
    /\ bi_call.returning /\ bi_call.has_callback /\ bi_call.blob_columns # {}
    /\ bi_ret.out.op = "returned"

\* C23 as stated: for every batch_insert call with a non-empty row list and a
\* timing callback, the callback is invoked exactly once, with batch_size the
\* number of rows and end_time >= start_time.
C23_AsStated ==
    (BiDone /\ bi_call.rows # <<>> /\ bi_call.has_callback) =>
        LET cbs == BiPrims("metrics_callback")
        IN  /\ Len(cbs) = 1
            /\ cbs[1].batch_size = Len(bi_call.rows)
            /\ cbs[1].end_time >= cbs[1].start_time

\* C23: the timing callback is invoked exactly once.  For every batch_insert
\* call that reaches the insert (the driver is available) with a non-empty row
\* list and a callback, the callback is invoked exactly once, after
\* execute_values, with batch_size the number of rows, end_time >= start_time
\* and elapsed_seconds their difference, whether the insert succeeds, the insert
\* fails, or the fetch of the returned rows fails; without a callback nothing is
\* invoked in its place, and without the driver the callback is not invoked.
C23_CallbackOnce ==
    (BiDone /\ bi_call.rows # <<>>) =>
        LET cbs == BiPrims("metrics_callback")
        IN  IF bi_call.driver
            THEN /\ Len(BiPrims("execute_values")) = 1
                 /\ IF bi_call.has_callback
                    THEN /\ Len(cbs) = 1
                         /\ bi_ret.out.calls[2] = cbs[1]
                         /\ cbs[1].batch_size = Len(bi_call.rows)
                         /\ cbs[1].end_time >= cbs[1].start_time
                         /\ cbs[1].elapsed_seconds = cbs[1].end_time - cbs[1].start_time
                    ELSE cbs = <<>>
            ELSE bi_ret.out.calls = <<>>

\* A call with two rows and a callback whose insert failed has invoked the
\* callback once.
C23_Witness ==
    /\ BiDone /\ bi_call.driver /\ Len(bi_call.rows) = 2 /\ bi_call.has_callback
    /\ bi_ret.out.op = "raised"
    /\ ~bi_ret.env.execute_ok
    /\ Len(BiPrims("metrics_callback")) = 1

PfDone == pf_call # NoCall /\ pf_ret # NoCall
\* Row r of the input is shorter than an index requires, or its identifier
\* value is absent from the map.
PfUnresolved(r) ==
    LET row == pf_call.child_rows[r]
        fk == pf_call.child_fk_column_index
        id == pf_call.child_identifier_column_index
    IN  \/ ~IndexInRange(Len(row), fk)
        \/ ~IndexInRange(Len(row), id)
        \/ row[IndexPos(Len(row), id)] \notin DOMAIN pf_call.parent_pk_map
\* The call returned the rows of its input, in order, each with its FK cell
\* replaced by the key of its identifier and every other cell unchanged.
PfPropagated ==
    /\ pf_ret.op = "returned"
    /\ Len(pf_ret.rows) = Len(pf_call.child_rows)
    /\ \A r \in 1..Len(pf_call.child_rows) :
          LET row == pf_call.child_rows[r]
              out == pf_ret.rows[r]
              fk == IndexPos(Len(row), pf_call.child_fk_column_index)
              id == IndexPos(Len(row), pf_call.child_identifier_column_index)
          IN  /\ Len(out) = Len(row)
              /\ row[id] \in DOMAIN pf_call.parent_pk_map
              /\ out[fk] = pf_call.parent_pk_map[row[id]]
              /\ \A c \in 1..Len(row) : c # fk => out[c] = row[c]

SequencesPkColumn(parent_table, sequences) ==
    IF \E j \in 1..Len(sequences) :
          HasDot(sequences[j]) /\ TableOf(sequences[j]) = parent_table
    THEN JoinDot(ColumnOf(sequences[
             CHOOSE j \in 1..Len(sequences) :
                HasDot(sequences[j]) /\ TableOf(sequences[j]) = parent_table]))
    ELSE "id"

\* C26: build_fk_propagation_maps gives one map per parent->child pair whose
\* two references hold a dot, in configuration order, and the parent_pk_column
\* of each map is the column the sequences name for the parent table
\* ("parents.id" gives "id"), else the default "id".
C26_ParentPkColumnFromSequences ==
    pc \notin {"start", "raised"} =>
        LET fp == Cfg(config).fk_propagations
            well_formed == SelectSeq(fp.entries,
                              LAMBDA e : HasDot(e.parent) /\ HasDot(e.child))
        IN  /\ Len(fk_maps) = Len(well_formed)
            /\ \A j \in 1..Len(fk_maps) :
                  /\ fk_maps[j].parent_table = TableOf(well_formed[j].parent)
                  /\ fk_maps[j].child_fk_column = ColumnOf(well_formed[j].child)
                  /\ JoinDot(fk_maps[j].parent_pk_column) =
                        SequencesPkColumn(fk_maps[j].parent_table, Cfg(config).sequences)

\* The normalize_sheet call has been made.
NsDone == ns_call # NoCall /\ ns_ret # NoCall
IsBlankRow(raw) == \A j \in 1..Len(raw) : raw[j].k = "nan"
\* The data rows of the grid that are not entirely blank, in source order.
NsKeptRows ==
    SelectSeq(SubSeq(ns_call.df, 3, Len(ns_call.df)), LAMBDA raw : ~IsBlankRow(raw))
NsBlankCount ==
    Cardinality({ r \in 3..Len(ns_call.df) : IsBlankRow(ns_call.df[r]) })
\* A cell that no default and no sentinel touches.
IsPlainCell(val) ==
    \/ val.k = "int"
    \/ val.k = "str" /\ Join(Strip(val.s)) # ""
                     /\ Join(Upper(Strip(val.s))) \notin ns_call.null_sentinels

\* C27: normalization row count and column order.  A grid with fewer than 2
\* rows fails with SheetHeaderError.  For a grid with at least 2 rows,
\* normalize_sheet fails with MissingColumnsError exactly when an expected
\* column is not among the trimmed header cells, and otherwise emits exactly
\* (rows - 2) minus (number of entirely blank data rows) row mappings, one per
\* non-blank data row in source order, and a columns list equal to the trimmed
\* header-row cells in header order.
C27_RowCountAndColumnOrder ==
    NsDone =>
        IF Len(ns_call.df) < 2
        THEN ~ns_ret.ok /\ ns_ret.err = "SheetHeaderError"
        ELSE LET header == ns_call.df[2]
                 trimmed == [j \in 1..Len(header) |-> HeaderName(header[j])]
             IN  IF ns_call.expected_columns \ Range(trimmed) # {}
                 THEN ~ns_ret.ok /\ ns_ret.err = "MissingColumnsError"
                 ELSE /\ ns_ret.ok
                      /\ ns_ret.columns = trimmed
                      /\ Len(ns_ret.rows) = (Len(ns_call.df) - 2) - NsBlankCount
                      /\ Len(ns_ret.rows) = Len(NsKeptRows)
                      /\ \A r \in 1..Len(ns_ret.rows) :
                            /\ DOMAIN ns_ret.rows[r] = Range(trimmed)
                            /\ \A j \in 1..Len(trimmed) :
                                  IsPlainCell(NsKeptRows[r][j]) =>
                                     ns_ret.rows[r][trimmed[j]] = NsKeptRows[r][j]

\* A grid whose header holds " name " and whose two data rows are a blank row
\* followed by a row with a value has given one row mapping.
C27_Witness ==
    /\ NsDone /\ ns_ret.ok
    /\ Len(ns_call.df) = 4
    /\ ns_call.df[2][2] = StrV(<<" ", "name", " ">>)
    /\ IsBlankRow(ns_call.df[3])
    /\ ns_call.df[4][1] = IntV(1)
    /\ Len(ns_ret.rows) = 1
    /\ ns_ret.columns = <<"id", "name">>

\* C28: null-sentinel precedence.  For every emitted cell that was a string in
\* the sheet: when it is empty or whitespace-only and its column has a default,
\* the default is stored (this check is made before the sentinel match);
\* otherwise, when its trimmed, upper-cased value is in the sentinel set, null
\* is stored whatever the default; any other non-empty value is stored
\* untrimmed.
C28_NullSentinelPrecedence ==
    (NsDone /\ ns_ret.ok) =>
        \A r \in 1..Len(ns_ret.rows) : \A j \in 1..Len(ns_ret.columns) :
            LET col == ns_ret.columns[j]
                val == NsKeptRows[r][j]
                out == ns_ret.rows[r][col]
            IN  val.k = "str" =>
                   IF Join(Strip(val.s)) = "" /\ col \in DOMAIN ns_call.default_values
                   THEN out = ns_call.default_values[col]
                   ELSE IF Join(Upper(Strip(val.s))) \in ns_call.null_sentinels
                   THEN out = NoneV
                   ELSE Join(Strip(val.s)) # "" => out = val

\* main has returned.
CliExited == cli_pc = "exited"
\* The run did not pass startup: the configuration could not be loaded, the
\* source directory is missing, or process_all raised ProcessingError.
CliFatal ==
    \/ ~load_config(cli_env).ok
    \/ ~directory_exists(directory)
    \/ pc = "raised"

SummaryText(total, success, failed, rows, skipped) ==
    "files=" \o ToString(total) \o "/" \o ToString(total)
    \o " success=" \o ToString(success) \o " failed=" \o ToString(failed)
    \o " rows=" \o ToString(rows) \o " skipped_sheets=" \o ToString(skipped)

C30_Summary ==
    /\ ~CliExited => summary_lines = <<>>
    /\ (CliExited /\ CliFatal) => summary_lines = <<>>
    /\ (CliExited /\ ~CliFatal) =>
          /\ Len(summary_lines) = 1
          /\ summary_lines[1].level = "SUMMARY"
          /\ success_count + failed_count = Len(files)
          /\ summary_lines[1].message =
                SummaryText(success_count + failed_count, success_count,
                            failed_count, total_rows, total_skipped_sheets)
          /\ files = <<>> =>
                /\ summary_lines[1].message = SummaryText(0, 0, 0, 0, 0)
                /\ summary_lines[1].throughput_rps = "0"
                /\ exit_code = EXIT_SUCCESS_ALL

\* process_all is not running: main has not called it, or it returned or raised.
ProcessAllAtRest == cli_pc # "running" \/ pc \in {"done", "raised"}
\* A bound on the steps process_all has left: the files still to finish, and
\* within the current file the stages and sheets still to pass.
RankWidth == 2 * Len(sheet_mappings) + 4
Rank ==
    CASE pc = "start" -> 2 + (Len(files) + 1) * RankWidth
      [] pc \in {"done", "raised", "idle"} -> 0
      [] pc = "flush" -> 1
      [] OTHER ->
           2 + (Len(files) - Len(file_results) - 1) * RankWidth
             + (CASE pc = "begin" -> RankWidth - 1
                  [] pc = "read" -> RankWidth - 2
                  [] pc = "sheets" -> 2 * (Len(sheet_mappings) + 1 - mi) + 1
                  [] pc = "insert" -> 2 * (Len(sheet_mappings) + 1 - mi))

ElLines(records) == [j \in 1..Len(records) |-> to_json_line(records[j])]
RECURSIVE ElWritten(_)
\* The records of all successful flushes, in flush order.
ElWritten(flushes) ==
    IF flushes = <<>> THEN <<>>
    ELSE (IF Head(flushes).ok THEN Head(flushes).buffered ELSE <<>>)
         \o ElWritten(Tail(flushes))

\* C31: the error log buffer is append-only and order-preserving.  A successful
\* flush writes every buffered record as one line, in append order, after the
\* lines the file already held, and leaves the buffer empty; while no flush has
\* failed, the records written by the flushes followed by the records still
\* buffered are exactly the appended records in append order (each written
\* once); and all flushes of the buffer go to the same path.
C31_AppendOnlyOrdered ==
    /\ \A j \in 1..Len(el_flushes) :
          LET f == el_flushes[j]
          IN  f.ok => /\ f.after = f.before \o ElLines(f.buffered)
                      /\ f.left = <<>>
    /\ (el_flushes # <<>> /\ el_flushes[Len(el_flushes)].ok)
          => lines_of(el_disk, el_file_path) = el_flushes[Len(el_flushes)].after
    /\ (\A j \in 1..Len(el_flushes) : el_flushes[j].ok)
          => /\ ElWritten(el_flushes) \o el_records = el_appended
             /\ LET content == lines_of(el_disk, el_file_path)
                    written == ElLines(ElWritten(el_flushes))
                IN  /\ Len(written) <= Len(content)
                    /\ written = SubSeq(content, Len(content) - Len(written) + 1,
                                        Len(content))
    /\ \A j \in 1..Len(el_flushes) : el_flushes[j].path = el_file_path

\* Two successful flushes of one record each, a second apart, into a file that
\* already held a line.
C31_Witness ==
    /\ Len(el_flushes) = 2
    /\ \A j \in 1..2 : el_flushes[j].ok /\ Len(el_flushes[j].buffered) = 1
    /\ el_flushes[1].before # <<>>
    /\ el_now = 1 /\ el_file_path = log_path(0)
    /\ Len(lines_of(el_disk, el_file_path)) = 3

\* The index of the last key capture for table t in the trace, 0 when none.
LastCapture(t) ==
    LET hs == { h \in 1..Len(trace) : IsCapture(trace[h]) /\ trace[h].table = t }
    IN  IF hs = {} THEN 0 ELSE CHOOSE h \in hs : \A g \in hs : g <= h

\* C32: content of the parent key lookup.  After a parent table's insert has
\* executed with key capture and rows came back, parent_pk_lookup[table] maps
\* the identifier-column value of each returned row (the row's "name") to the
\* generated key of that row, for every returned row that holds the key column.
C32_LookupMapsIdentifierToKey ==
    \A pair \in ConfiguredPairs(Cfg(config).fk_propagations) :
        LET t == pair.parent_table
            h == LastCapture(t)
            key_idx == SeqIndex(TableCols(t), "id")
            id_idx == SeqIndex(TableCols(t), pair.parent_identifier)
        IN  (h > 0 /\ pair.parent_identifier \in Range(TableCols(t))) =>
               /\ t \in DOMAIN parent_pk_lookup
               /\ \A r \in 1..Len(trace[h].returned) :
                     LET rv == trace[h].returned[r]
                     IN  Len(rv) >= key_idx =>
                            \E j \in 1..Len(parent_pk_lookup[t]) :
                               /\ parent_pk_lookup[t][j].key = rv[id_idx]
                               /\ parent_pk_lookup[t][j].val = rv[key_idx]

\* C33: the parent key lookup is written once per parent table.  During one
\* run the lookup entry of a table is assigned (by a key capture) at most once,
\* also when the parent's sheet occurs in several files.
C33_LookupWrittenOnce ==
    \A h, g \in 1..Len(trace) :
        (IsCapture(trace[h]) /\ IsCapture(trace[g]) /\ trace[h].table = trace[g].table)
           => h = g

\* All children of table t have had a successful insert before call h.
ChildrenInsertedBefore(t, h) ==
    LET children == { pair.child_table :
                        pair \in { q \in ConfiguredPairs(Cfg(config).fk_propagations) :
                                     q.parent_table = t } }
    IN  /\ children # {}
        /\ \A c \in children :
              \E j \in 1..(h - 1) : trace[j].ev = "INSERT" /\ trace[j].table = c

\* C34: processed_tables is the set of tables already inserted.  With a store
\* handle the table of every successful batch insert is in processed_tables,
\* key capture or not; processed_tables holds no table without an executed
\* insert; and a parent all of whose children have been inserted is inserted
\* with returning=false.
C34_ProcessedTablesAreInserted ==
    cursor = "live" =>
       /\ \A h \in 1..Len(trace) :
             trace[h].ev = "INSERT" => trace[h].table \in processed_tables
       /\ \A t \in processed_tables :
             \E h \in 1..Len(trace) : trace[h].ev = "INSERT" /\ trace[h].table = t
       /\ \A h \in 1..Len(trace) :
             (IsInsertCall(trace[h]) /\ ChildrenInsertedBefore(trace[h].table, h))
                => ~trace[h].returning

\* The file during whose processing the lookup entry of table t was last written.
LookupWriter(t) == trace[LastCapture(t)].file

\* C38: a rolled-back file leaves no keys behind.  Once a file is finished as
\* failed (a sheet failed or its COMMIT failed, so its inserts were rolled
\* back), parent_pk_lookup holds no entry written while that file was processed
\* and processed_tables holds no table that only that file's inserts added.
C38_RolledBackFileLeavesNoKeys ==
    /\ \A t \in DOMAIN parent_pk_lookup :
          LastCapture(t) > 0 =>
             ~(Finished(LookupWriter(t))
               /\ file_results[LookupWriter(t)].status = "failed")
    /\ \A t \in processed_tables :
          \E h \in 1..Len(trace) :
             /\ IsCapture(trace[h]) /\ trace[h].table = t
             /\ ~(Finished(trace[h].file) /\ file_results[trace[h].file].status = "failed")

\* C39: per-file statistics agree with the run total.  In the returned
\* ProcessingResult every FileStat with status failed has inserted_rows = 0, and
\* the inserted_rows of all file_stats add up to total_inserted_rows.
C39_FileStatsAgreeWithTotal ==
    result.returned =>
       /\ \A f \in 1..Len(result.file_stats) :
             result.file_stats[f].status = "failed" =>
                result.file_stats[f].inserted_rows = 0
       /\ SumSeq([f \in 1..Len(result.file_stats) |->
                     result.file_stats[f].inserted_rows])
             = result.total_inserted_rows

\* The mapping of the sheet an insert call was made for.
MappingOf(e) == CHOOSE x \in Range(sheet_mappings) : x.sheet_name = e.sheet
\* The FK propagation columns of a mapping that no propagation map names.
UnmappedFkColumns(m) ==
    { col \in m.fk_propagation_columns :
        \A j \in 1..Len(fk_maps) : ~fk_map_matches(fk_maps[j], col) }

\* C35: the inline FK fill is not fatal and has a narrow frame.  A sheet that
\* declares an FK propagation column without a configured mapping fails only
\* if its normalization or its batch insert failed, and once normalized to rows
\* its insert is invoked; and every insert call is passed the normalized rows,
\* same number and order, where a cell differs from the normalized cell only if
\* its column is a declared FK propagation column and the normalized cell was
\* None.
C35_InlineFillFrame ==
    /\ \A f \in 1..Len(file_results) :
          \A j \in 1..Len(file_results[f].sheets) :
             LET sp == file_results[f].sheets[j]
             IN  sp.error # NoError =>
                    \E h \in 1..Len(EventsOf(f)) :
                       IsSheetFailure(EventsOf(f)[h]) /\ EventsOf(f)[h].sheet = sp.sheet_name
    /\ \A h \in 1..Len(trace) :
          ( /\ cursor = "live" /\ trace[h].ev = "NORMALIZE" /\ trace[h].outcome = "ok"
            /\ NormalizedRowsOf(trace[h]) # <<>>
            /\ h < Len(trace) )
             => IsInsertCall(trace[h + 1]) /\ trace[h + 1].sheet = trace[h].sheet
    /\ \A h \in 1..Len(trace) :
          IsInsertCall(trace[h]) =>
             LET e == trace[h]
                 m == MappingOf(e)
                 raw == insert_rows_of(NormalizedRowsOf(e), e.columns)
             IN  /\ Len(e.rows) = Len(raw)
                 /\ \A r \in 1..Len(raw) :
                       /\ Len(e.rows[r]) = Len(raw[r])
                       /\ \A c \in 1..Len(raw[r]) :
                             e.rows[r][c] # raw[r][c] =>
                                /\ e.columns[c] \in m.fk_propagation_columns
                                /\ raw[r][c] = NoneV

\* A succeeded file whose child sheet declares owner_id without a mapping: its
\* insert was passed the None owner_id cell as it was, the None parent_id cell
\* filled with a generated key, and the non-null cells unchanged.
C35_Witness ==
    /\ config = "nomap" /\ cursor = "live"
    /\ \E h \in 1..Len(trace) :
          /\ trace[h].ev = "INSERT" /\ trace[h].table = "children"
          /\ "owner_id" \in UnmappedFkColumns(MappingOf(trace[h]))
          /\ trace[h].columns = <<"parent_id", "owner_id">>
          /\ trace[h].rows = << <<Alice, NoneV>>, <<IntV(FirstKey + 1), IntV(7)>> >>
          /\ Finished(trace[h].file)
          /\ file_results[trace[h].file].status = "success"

\* Event h is the normalization of a sheet that has no data row.
IsEmptySheet(h) ==
    /\ trace[h].ev = "NORMALIZE" /\ trace[h].outcome = "ok"
    /\ NormalizedRowsOf(trace[h]) = <<>>
\* The sheet results of file f so far.
SheetResultsOf(f) ==
    IF Finished(f) THEN file_results[f].sheets
    ELSE IF f = fi THEN sheet_processes ELSE <<>>

\* C36: an empty sheet is a normal success.  A present, mapped sheet that
\* normalizes to zero data rows gets a sheet result with inserted_rows = 0 and
\* no error, no error record, and no batch insert; neither parent_pk_lookup nor
\* processed_tables gains an entry other than by a key capture, which an
\* empty sheet never is; and its file fails only on a failure of its own.
C36_EmptySheetIsSuccess ==
    /\ \A h \in 1..Len(trace) :
          IsEmptySheet(h) =>
             LET f == trace[h].file
                 sheet == trace[h].sheet
                 evs == EventsOf(f)
                 results == SheetResultsOf(f)
             IN  /\ \A g \in 1..Len(evs) : IsInsertCall(evs[g]) => evs[g].sheet # sheet
                 /\ \A j \in 1..Len(Appended) :
                       Appended[j].file = f => Appended[j].sheet # sheet
                 /\ \A j \in 1..Len(results) :
                       results[j].sheet_name = sheet =>
                          /\ results[j].inserted_rows = 0
                          /\ results[j].error = NoError
                 /\ (pc # "insert" /\ (Finished(f) \/ f = fi)
                     /\ ~(Finished(f) /\ file_results[f].sheets = <<>>))
                       => \E j \in 1..Len(results) : results[j].sheet_name = sheet
                 /\ (Finished(f) /\ file_results[f].status = "failed") =>
                       \E g \in 1..Len(evs) :
                          \/ IsSheetFailure(evs[g])
                          \/ (evs[g].ev \in {"BEGIN", "READ", "COMMIT"} /\ ~evs[g].ok)
    /\ processed_tables = { trace[h].table : h \in { g \in 1..Len(trace) : IsCapture(trace[g]) } }
    /\ DOMAIN parent_pk_lookup = processed_tables
    /\ \A h \in 1..Len(trace) : IsCapture(trace[h]) => trace[h].rows # <<>>

\* A file with an empty sheet and a parent sheet with rows was committed as a
\* success: the empty sheet's result has 0 rows and no error.
C36_Witness ==
    /\ cursor = "live"
    /\ \E h \in 1..Len(trace) :
          /\ IsEmptySheet(h)
          /\ Finished(trace[h].file)
          /\ file_results[trace[h].file].status = "success"
          /\ file_results[trace[h].file].total_rows > 0
          /\ \E j \in 1..Len(file_results[trace[h].file].sheets) :
                /\ file_results[trace[h].file].sheets[j].sheet_name = trace[h].sheet
                /\ file_results[trace[h].file].sheets[j].inserted_rows = 0
                /\ file_results[trace[h].file].sheets[j].error = NoError
          /\ \E g \in 1..Len(trace) :
                trace[g].ev = "COMMIT" /\ trace[g].ok /\ trace[g].file = trace[h].file

\* C37: every file is finalized exactly once in a terminal state.  Whatever
\* fails (BEGIN, parsing, normalization, insert, COMMIT, ROLLBACK), the file
\* loop gets one record per file it has been through, in file order, with status
\* success or failed and an error text exactly when failed; process_all raises
\* only before the first file; and a returned run has a record for every file.
C37_FinalizedOnce ==
    /\ Len(file_results) <= Len(files)
    /\ \A f \in 1..Len(file_results) :
          /\ file_results[f].name = f
          /\ file_results[f].status \in {"success", "failed"}
          /\ (file_results[f].error # NoError) <=> (file_results[f].status = "failed")
    /\ pc = "raised" => (file_results = <<>> /\ trace = <<>>)
    /\ pc \in {"begin", "read", "sheets", "insert"} => Len(file_results) = fi - 1
    /\ (pc \in {"flush", "done"} /\ directory = "dir" /\ config_is_valid(Cfg(config)))
          => Len(file_results) = Len(files)

\* A returned run of two files: the first failed on its COMMIT and the ROLLBACK
\* after it failed too, the second succeeded.
C37_Witness ==
    /\ result.returned
    /\ Len(file_results) = 2
    /\ file_results[1].status = "failed" /\ file_results[1].error = "commit failed"
    /\ \E h \in 1..Len(trace) :
          trace[h].ev = "ROLLBACK" /\ ~trace[h].ok /\ trace[h].file = 1
    /\ file_results[2].status = "success" /\ file_results[2].error = NoError

\* C40: the CLI processes the directory at most once.  Within one invocation
\* main calls process_all at most once: a connection that cannot be opened
\* selects mock mode before the call, and no second, mock-mode call is made
\* after a live-mode call has begun, so a live result is never replaced.
C40_ProcessAllAtMostOnce ==
    /\ Len(main_calls) <= 1
    /\ \A j \in 1..Len(main_calls) :
          main_calls[j] = "none" => \A h \in 1..(j - 1) : main_calls[h] # "live"

====
